---------------------------- MODULE Spec2Model ----------------------------
(***************************************************************************)
(* Model of the register-memory event handler of the U3V emulator          *)
(* (cameleon-device/src/u3v/emulator/emulator_impl/memory_event_handler.rs)*)
(* and of the value and cache stores of the GenApi runtime                 *)
(* (genapi/src/store.rs, with the writes of integer.rs and enumeration.rs).*)
(*                                                                         *)
(* One control-module worker drains the bounded memory-event queue with    *)
(* MemoryEventHandler::handle_events.  The host side writes registers      *)
(* under the memory lock; the observers registered on ABRM::TimestampLatch *)
(* and SIRM::Control enqueue one event per write.  The stream module       *)
(* answers StreamSignal::Disable on a oneshot completion channel.          *)
(***************************************************************************)
EXTENDS Integers, Sequences, FiniteSets, TLC

(***************************************************************************)
(* Bounds of the model.                                                    *)
(***************************************************************************)
\* Number of register writes the host makes in one behaviour.
MaxWrites == 3

\* Node ids are 0..MaxNode.
MaxNode == 2

\* Register addresses are 0..MaxAddress.
MaxAddress == 1

\* Lengths of a cached range are 1..MaxLength.
MaxLength == 2

\* Number of calls made on the genapi stores in one behaviour.
MaxCalls == 4

(***************************************************************************)
(* Program constants.                                                      *)
(***************************************************************************)
MEMORY_EVENT_CHANNEL_CAPACITY == 100

\* memory::SIRM_ALIGNMENT
SIRM_ALIGNMENT == 4

(***************************************************************************)
(* Registers.                                                              *)
(***************************************************************************)
AlignedRegs ==
    {"MaximumLeaderSize", "PayloadTransferSize", "PayloadFinalTransferSize1",
     "PayloadFinalTransferSize2", "MaximumTrailerSize"}

SizeRegs ==
    AlignedRegs \cup {"PayloadTransferCount", "RequiredLeaderSize",
                      "RequiredTrailerSize", "RequiredPayloadSize"}

Regs == SizeRegs \cup {"Control", "TimestampLatch", "Timestamp"}

\* Registers an observer is registered on, and the event each one sends.
ObservedRegs == {"TimestampLatch", "Control"}

\* Mutation: both observers are defined with the SiControl event.
EventOfSame(reg) == "SiControl"

EventOf(reg) == IF reg = "TimestampLatch" THEN "TimestampLatch" ELSE "SiControl"

\* The values the host writes to each writable register.
HostValues(reg) ==
    CASE reg = "Control"                   -> {0, 1, 2}
      [] reg = "TimestampLatch"            -> {1, 2}
      [] reg = "MaximumLeaderSize"         -> {0, 4, 6}
      [] reg = "MaximumTrailerSize"        -> {0, 4, 6}
      [] reg = "PayloadTransferSize"       -> {4, 6}
      [] reg = "PayloadTransferCount"      -> {0, 1}
      [] reg = "PayloadFinalTransferSize1" -> {0, 2}
      [] reg = "PayloadFinalTransferSize2" -> {0, 2}
      [] OTHER                             -> {}

\* The values Timestamp::as_nanos yields.
ClockValues == {5, 7}

\* Register contents after construction: a valid stream configuration.
InitMemory ==
    [r \in Regs |->
        CASE r = "MaximumLeaderSize"    -> 4
          [] r = "MaximumTrailerSize"   -> 4
          [] r = "PayloadTransferSize"  -> 4
          [] r = "PayloadTransferCount" -> 1
          [] r = "RequiredLeaderSize"   -> 4
          [] r = "RequiredTrailerSize"  -> 4
          [] r = "RequiredPayloadSize"  -> 4
          [] OTHER                      -> 0]

VARIABLES
    memory,        \* worker.memory: register name -> value
    lock,          \* holder of the memory mutex: "free" or "handler"
    queue,         \* the channel between the observers (tx) and the handler (rx)
    pc,            \* position of the worker inside handle_events
    error_ack,     \* handle_events: the accumulated result
    event,         \* handle_events: the event popped by try_recv
    value,         \* value read from the observed register
    res,           \* enable_sirm: res
    timestamp_ns,  \* TimestampLatchHandler::handle_events: timestamp_ns
    completed,     \* the oneshot channel of disable_sirm
    ret,           \* what the last call of handle_events returned
    sigs,          \* signals sent while the current event is processed
    wrote,         \* register writes made while the current event is processed
    seenA,         \* registers as verify_alignment read them
    seenS,         \* registers as verify_size read them
    log,           \* events processed by the current call, with their effects
    enq,           \* every event enqueued so far
    deq,           \* every event dequeued so far
    writes,        \* number of host writes made since Init
    written        \* the observed register of every host write to one, in order

\* The state of the emulator's worker, its queue and the stream module.
emulator == <<memory, lock, queue, pc, error_ack, event, value, res, timestamp_ns,
              completed, ret, sigs, wrote, seenA, seenS, log, enq, deq, writes, written>>

VARIABLES
    cache_store,   \* DefaultCacheStore.store: NodeId -> (address, length) -> bytes
    invalidators,  \* DefaultCacheStore.invalidators: NodeId -> targets, in push order
    sink,          \* the CacheSink
    values,        \* DefaultValueStore.0: the vector of ValueData
    offered,       \* every key the CacheSink was asked to cache
    ids,           \* every id DefaultValueStore::store returned, in order
    id_arms,       \* the arm each id was stored with (IntegerId, FloatId, StringId)
    interner,      \* DefaultNodeStore.interner: the interned names, in order
    nodes,         \* DefaultNodeStore.store: the vector of Option<NodeData>
    fresh_id,      \* DefaultNodeStore.fresh_id
    codec,         \* one conversion of utils.rs: its arguments, buffer and results
    payload,       \* verify_size: the payload registers at their width, and the sum
    call,          \* the last call made on a genapi store, with what it returned
    calls          \* number of calls made on the genapi stores since Init

\* The state of the genapi stores and of the computations followed at their
\* machine width.
\* The state of the DefaultNodeStore.
node_vars == <<interner, nodes, fresh_id>>

genapi == <<cache_store, invalidators, sink, values, offered, ids, id_arms, node_vars,
            codec, payload, call, calls>>

vars == <<emulator, genapi>>

locals == <<event, value, res, timestamp_ns>>
ghosts == <<sigs, wrote, seenA, seenS>>

Ok == "Ok"
GenericError == "GenericError"
InvalidSiState == "InvalidSiState"

(***************************************************************************)
(* Result::and, as used on Result<(), ErrorAck>.                           *)
(***************************************************************************)
\* Mutation: the last failure wins instead of the first.
ResultAndLast(a, b) == IF b = Ok THEN a ELSE b

ResultAnd(a, b) == IF a = Ok THEN b ELSE a

(***************************************************************************)
(* Memory::read / Memory::write on an integer register, through            *)
(* read_memory / write_memory.  The registers used here are fixed-width    *)
(* integers inside the memory map, so neither call has an error outcome.   *)
(***************************************************************************)
read_memory(mem, reg) == mem[reg]

write_memory(mem, reg, val) == [mem EXCEPT ![reg] = val]

(***************************************************************************)
(* MemoryObserver::update: try_send on the bounded channel; a full channel *)
(* drops the event.                                                        *)
(***************************************************************************)
\* Mutation: the capacity test is off by one.
try_send_one_more(q, e) ==
    IF Len(q) <= MEMORY_EVENT_CHANNEL_CAPACITY THEN Append(q, e) ELSE q

try_send(q, e) ==
    IF Len(q) < MEMORY_EVENT_CHANNEL_CAPACITY THEN Append(q, e) ELSE q

(***************************************************************************)
(* Receiver::try_recv: the oldest message of the channel.                  *)
(***************************************************************************)
try_recv_msg(q) == Head(q)

try_recv_rest(q) == Tail(q)

\* Mutation: PayloadFinalTransferSize1 is left out of the alignment check.
verify_alignment_without_final1(mem) ==
    IF \/ read_memory(mem, "MaximumLeaderSize") % SIRM_ALIGNMENT # 0
       \/ read_memory(mem, "PayloadTransferSize") % SIRM_ALIGNMENT # 0
       \/ read_memory(mem, "PayloadFinalTransferSize2") % SIRM_ALIGNMENT # 0
       \/ read_memory(mem, "MaximumTrailerSize") % SIRM_ALIGNMENT # 0
    THEN InvalidSiState
    ELSE Ok

(***************************************************************************)
(* SiControlHandler::verify_alignment                                      *)
(***************************************************************************)
verify_alignment(mem) ==
    IF \/ read_memory(mem, "MaximumLeaderSize") % SIRM_ALIGNMENT # 0
       \/ read_memory(mem, "PayloadTransferSize") % SIRM_ALIGNMENT # 0
       \/ read_memory(mem, "PayloadFinalTransferSize1") % SIRM_ALIGNMENT # 0
       \/ read_memory(mem, "PayloadFinalTransferSize2") % SIRM_ALIGNMENT # 0
       \/ read_memory(mem, "MaximumTrailerSize") % SIRM_ALIGNMENT # 0
    THEN InvalidSiState
    ELSE Ok

\* Mutation: the transfer size and the transfer count are added, not multiplied.
specified_payload_size_added(mem) ==
    read_memory(mem, "PayloadTransferSize") + read_memory(mem, "PayloadTransferCount")
      + read_memory(mem, "PayloadFinalTransferSize1")
      + read_memory(mem, "PayloadFinalTransferSize2")

(***************************************************************************)
(* SiControlHandler::verify_size                                           *)
(***************************************************************************)
specified_payload_size(mem) ==
    read_memory(mem, "PayloadTransferSize") * read_memory(mem, "PayloadTransferCount")
      + read_memory(mem, "PayloadFinalTransferSize1")
      + read_memory(mem, "PayloadFinalTransferSize2")

verify_size(mem) ==
    IF read_memory(mem, "MaximumLeaderSize") < read_memory(mem, "RequiredLeaderSize")
    THEN InvalidSiState
    ELSE IF read_memory(mem, "MaximumTrailerSize")
              < read_memory(mem, "RequiredTrailerSize")
    THEN InvalidSiState
    ELSE IF specified_payload_size(mem) < read_memory(mem, "RequiredPayloadSize")
    THEN InvalidSiState
    ELSE Ok

(***************************************************************************)
(* Signals handed to Worker::try_send_signal.                              *)
(***************************************************************************)
UpdateTimestamp(ns) == [sig |-> "UpdateTimestamp", ns |-> ns]
Enable == [sig |-> "Enable", ns |-> 0]
Disable == [sig |-> "Disable", ns |-> 0]

(***************************************************************************)
(* The genapi stores (genapi/src/store.rs) after construction.             *)
(***************************************************************************)
\* Option<T>
None == <<>>
Some(x) == <<x>>

\* HashMap::new()
EmptyMap == [k \in {} |-> <<>>]

\* CacheSink { _priv: () }
CacheSink == [priv |-> <<>>]

\* No conversion is under way.
NoCodec == [phase |-> "none"]

\* No payload size is being computed.
NoPayload == [phase |-> "none"]

\* No call has been made yet.
NoCall ==
    [op |-> "none", nid |-> 0, target |-> 0, address |-> 0, length |-> 0,
     data |-> <<>>, id |-> 0, value |-> None, ret |-> None, result |-> "Ok",
     gone |-> 0, replaced |-> 0, name |-> "", elem |-> "", source |-> ""]

\* DefaultCacheStore::new(), CacheSink::new(), DefaultValueStore::new()
InitGenApi ==
    /\ cache_store = EmptyMap
    /\ invalidators = EmptyMap
    /\ sink = CacheSink
    /\ values = <<>>
    /\ offered = {}
    /\ ids = <<>>
    /\ id_arms = <<>>
    /\ interner = <<>>
    /\ nodes = <<>>
    /\ fresh_id = 0
    /\ codec = NoCodec
    /\ payload = NoPayload
    /\ call = NoCall
    /\ calls = 0

\* The emulator before the first host write.
InitEmulator ==
    /\ memory = InitMemory
    /\ lock = "free"
    /\ queue = <<>>
    /\ pc = "idle"
    /\ error_ack = Ok
    /\ event = "none"
    /\ value = 0
    /\ res = Ok
    /\ timestamp_ns = 0
    /\ completed = "none"
    /\ ret = "none"
    /\ sigs = <<>>
    /\ wrote = <<>>
    /\ seenA = <<>>
    /\ seenS = <<>>
    /\ log = <<>>
    /\ enq = <<>>
    /\ deq = <<>>
    /\ writes = 0
    /\ written = <<>>

Init == InitEmulator /\ InitGenApi

(***************************************************************************)
(* A host write to a register (Memory::write_raw under the memory lock).   *)
(* The observer of the written register fires inside the same critical     *)
(* section.                                                                *)
(***************************************************************************)
HostWrite ==
    \E reg \in Regs : \E val \in HostValues(reg) :
        /\ lock = "free"
        /\ writes < MaxWrites
        /\ writes' = writes + 1
        /\ written' = IF reg \in ObservedRegs THEN Append(written, reg) ELSE written
        /\ memory' = write_memory(memory, reg, val)
        /\ IF reg \in ObservedRegs
           THEN /\ queue' = try_send(queue, EventOf(reg))
                /\ enq' = IF queue' # queue THEN Append(enq, EventOf(reg)) ELSE enq
           ELSE UNCHANGED <<queue, enq>>
        /\ UNCHANGED <<lock, pc, error_ack, locals, completed, ret, ghosts, log, deq,
                       genapi>>

(***************************************************************************)
(* MemoryEventHandler::handle_events                                       *)
(***************************************************************************)
\* let mut error_ack = Ok(());
HandleEvents ==
    /\ pc = "idle"
    /\ pc' = "loop"
    /\ error_ack' = Ok
    /\ log' = <<>>
    /\ event' = "none"
    /\ value' = 0
    /\ res' = Ok
    /\ timestamp_ns' = 0
    /\ sigs' = <<>>
    /\ wrote' = <<>>
    /\ seenA' = <<>>
    /\ seenS' = <<>>
    /\ UNCHANGED <<memory, lock, queue, completed, ret, enq, deq, writes, written, genapi>>

\* while let Ok(event) = self.rx.try_recv() { event.process(..) }
Process ==
    /\ pc = "loop"
    /\ queue # <<>>
    /\ event' = try_recv_msg(queue)
    /\ queue' = try_recv_rest(queue)
    /\ deq' = Append(deq, event')
    /\ pc' = IF event' = "TimestampLatch" THEN "tl_lock" ELSE "sc_read"
    /\ value' = 0
    /\ res' = Ok
    /\ timestamp_ns' = 0
    /\ sigs' = <<>>
    /\ wrote' = <<>>
    /\ seenA' = <<>>
    /\ seenS' = <<>>
    /\ UNCHANGED <<memory, lock, error_ack, completed, ret, log, enq, writes, written, genapi>>

\* Mutation: the loop also ends as soon as an event has failed.
ReturnOnFirstError ==
    /\ pc = "loop"
    /\ queue = <<>> \/ error_ack # Ok
    /\ ret' = error_ack
    /\ pc' = "idle"
    /\ UNCHANGED <<memory, lock, queue, error_ack, locals, completed, ghosts, log,
                   enq, deq, writes, written, genapi>>

\* try_recv fails on the empty channel: the loop ends and error_ack is returned.
Return ==
    /\ pc = "loop"
    /\ queue = <<>>
    /\ ret' = error_ack
    /\ pc' = "idle"
    /\ UNCHANGED <<memory, lock, queue, error_ack, locals, completed, ghosts, log,
                   enq, deq, writes, written, genapi>>

\* let ack = event.process(..).await; error_ack = error_ack.and(ack);
Ack(ack, sg, wr) ==
    /\ error_ack' = ResultAnd(error_ack, ack)
    /\ log' = Append(log, [event |-> event, value |-> value', result |-> ack,
                           sigs |-> sg, wrote |-> wr])
    /\ sigs' = sg
    /\ wrote' = wr
    /\ pc' = "loop"

(***************************************************************************)
(* TimestampLatchHandler::handle_events                                    *)
(***************************************************************************)
\* Mutation: the guard is a temporary, released before the register is read.
TimestampLatchLockTemporary ==
    /\ pc = "tl_lock"
    /\ lock = "free"
    /\ lock' = "free"
    /\ pc' = "tl_read"
    /\ UNCHANGED <<memory, queue, error_ack, locals, completed, ret, ghosts, log,
                   enq, deq, writes, written, genapi>>

\* let mut memory = worker.memory.lock().await;
TimestampLatchLock ==
    /\ pc = "tl_lock"
    /\ lock = "free"
    /\ lock' = "handler"
    /\ pc' = "tl_read"
    /\ UNCHANGED <<memory, queue, error_ack, locals, completed, ret, ghosts, log,
                   enq, deq, writes, written, genapi>>

\* Mutation: only the value 0 is rejected.
TimestampLatchReadZero ==
    /\ pc = "tl_read"
    /\ value' = read_memory(memory, "TimestampLatch")
    /\ IF value' = 0
       THEN /\ lock' = "free"
            /\ Ack(GenericError, sigs, wrote)
       ELSE /\ pc' = "tl_write"
            /\ UNCHANGED <<lock, error_ack, log, sigs, wrote>>
    /\ UNCHANGED <<memory, queue, event, res, timestamp_ns, completed, ret, seenA,
                   seenS, enq, deq, writes, written, genapi>>

\* let value = Self::read(&memory, scd_kind)?; if value != 1 { return Err(GenericError) }
TimestampLatchRead ==
    /\ pc = "tl_read"
    /\ value' = read_memory(memory, "TimestampLatch")
    /\ IF value' # 1
       THEN /\ lock' = "free"
            /\ Ack(GenericError, sigs, wrote)
       ELSE /\ pc' = "tl_write"
            /\ UNCHANGED <<lock, error_ack, log, sigs, wrote>>
    /\ UNCHANGED <<memory, queue, event, res, timestamp_ns, completed, ret, seenA,
                   seenS, enq, deq, writes, written, genapi>>

\* let timestamp_ns = worker.timestamp.as_nanos().await;
\* write_memory::<ABRM::Timestamp>(timestamp_ns, &mut memory, scd_kind)?;
TimestampLatchWrite ==
    /\ pc = "tl_write"
    /\ \E ns \in ClockValues :
        /\ timestamp_ns' = ns
        /\ memory' = write_memory(memory, "Timestamp", ns)
        /\ wrote' = Append(wrote, <<"Timestamp", ns>>)
    /\ pc' = "tl_drop"
    /\ UNCHANGED <<lock, queue, error_ack, event, value, res, completed, ret, sigs,
                   seenA, seenS, log, enq, deq, writes, written, genapi>>

\* Mutation: the guard is not dropped before the signal is sent.
TimestampLatchNoDrop ==
    /\ pc = "tl_drop"
    /\ lock' = lock
    /\ pc' = "tl_signal"
    /\ UNCHANGED <<memory, queue, error_ack, locals, completed, ret, ghosts, log,
                   enq, deq, writes, written, genapi>>

\* drop(memory);
TimestampLatchDrop ==
    /\ pc = "tl_drop"
    /\ lock' = "free"
    /\ pc' = "tl_signal"
    /\ UNCHANGED <<memory, queue, error_ack, locals, completed, ret, ghosts, log,
                   enq, deq, writes, written, genapi>>

\* Mutation: the signal carries a second reading of the clock.
TimestampLatchSignalRereads ==
    /\ pc = "tl_signal"
    /\ lock' = "free"
    /\ UNCHANGED <<memory, queue, locals, completed, ret, seenA, seenS, enq, deq, writes, written, genapi>>
    /\ \E ns \in ClockValues : Ack(Ok, Append(sigs, UpdateTimestamp(ns)), wrote)

\* worker.try_send_signal(EventSignal::UpdateTimestamp(timestamp_ns)); Ok(())
\* Every guard still alive is released when the function returns.
TimestampLatchSignal ==
    /\ pc = "tl_signal"
    /\ lock' = "free"
    /\ UNCHANGED <<memory, queue, locals, completed, ret, seenA, seenS, enq, deq, writes, written, genapi>>
    /\ Ack(Ok, Append(sigs, UpdateTimestamp(timestamp_ns)), wrote)

\* Mutation: every value other than 0 takes the enable path.
SiControlReadNonZero ==
    /\ pc = "sc_read"
    /\ lock = "free"
    /\ value' = read_memory(memory, "Control")
    /\ IF value' # 0
       THEN /\ pc' = "verify_alignment"
            /\ UNCHANGED <<error_ack, log, sigs, wrote>>
       ELSE IF value' = 0
       THEN /\ pc' = "disable_sirm"
            /\ UNCHANGED <<error_ack, log, sigs, wrote>>
       ELSE Ack(GenericError, sigs, wrote)
    /\ UNCHANGED <<memory, lock, queue, event, res, timestamp_ns, completed, ret,
                   seenA, seenS, enq, deq, writes, written, genapi>>

\* Mutation: the guard is bound to a variable and lives to the end of the function.
SiControlReadKeepsGuard ==
    /\ pc = "sc_read"
    /\ lock = "free"
    /\ lock' = "handler"
    /\ value' = read_memory(memory, "Control")
    /\ IF value' = 1
       THEN /\ pc' = "verify_alignment"
            /\ UNCHANGED <<error_ack, log, sigs, wrote>>
       ELSE IF value' = 0
       THEN /\ pc' = "disable_sirm"
            /\ UNCHANGED <<error_ack, log, sigs, wrote>>
       ELSE Ack(GenericError, sigs, wrote)
    /\ UNCHANGED <<memory, queue, event, res, timestamp_ns, completed, ret,
                   seenA, seenS, enq, deq, writes, written, genapi>>

(***************************************************************************)
(* SiControlHandler::handle_events                                         *)
(***************************************************************************)
\* let value = Self::read(&*worker.memory.lock().await, scd_kind)?;
\* The guard is a temporary of the statement: the lock is free again after it.
SiControlRead ==
    /\ pc = "sc_read"
    /\ lock = "free"
    /\ value' = read_memory(memory, "Control")
    /\ IF value' = 1
       THEN /\ pc' = "verify_alignment"
            /\ UNCHANGED <<error_ack, log, sigs, wrote>>
       ELSE IF value' = 0
       THEN /\ pc' = "disable_sirm"
            /\ UNCHANGED <<error_ack, log, sigs, wrote>>
       ELSE Ack(GenericError, sigs, wrote)
    /\ UNCHANGED <<memory, lock, queue, event, res, timestamp_ns, completed, ret,
                   seenA, seenS, enq, deq, writes, written, genapi>>

\* let mut res = Self::verify_alignment(worker, scd_kind).await;
VerifyAlignment ==
    /\ pc = "verify_alignment"
    /\ lock = "free"
    /\ res' = verify_alignment(memory)
    /\ seenA' = <<[r \in AlignedRegs |-> memory[r]]>>
    /\ pc' = "verify_size"
    /\ UNCHANGED <<memory, lock, queue, error_ack, event, value, timestamp_ns,
                   completed, ret, sigs, wrote, seenS, log, enq, deq, writes, written, genapi>>

\* Mutation: the result of verify_size replaces the result of verify_alignment.
VerifySizeOverwrites ==
    /\ pc = "verify_size"
    /\ lock = "free"
    /\ res' = verify_size(memory)
    /\ seenS' = <<[r \in SizeRegs |-> memory[r]]>>
    /\ pc' = "enable_sirm"
    /\ UNCHANGED <<memory, lock, queue, error_ack, event, value, timestamp_ns,
                   completed, ret, sigs, wrote, seenA, log, enq, deq, writes, written, genapi>>

\* res = res.and(Self::verify_size(worker, scd_kind).await);
VerifySize ==
    /\ pc = "verify_size"
    /\ lock = "free"
    /\ res' = ResultAnd(res, verify_size(memory))
    /\ seenS' = <<[r \in SizeRegs |-> memory[r]]>>
    /\ pc' = "enable_sirm"
    /\ UNCHANGED <<memory, lock, queue, error_ack, event, value, timestamp_ns,
                   completed, ret, sigs, wrote, seenA, log, enq, deq, writes, written, genapi>>

\* if res.is_err() { Self::write(0, &mut *worker.memory.lock().await, ..)?; return res; }
WriteBack ==
    /\ pc = "enable_sirm"
    /\ res # Ok
    /\ lock = "free"
    /\ memory' = write_memory(memory, "Control", 0)
    /\ UNCHANGED <<lock, queue, locals, completed, ret, seenA, seenS, enq, deq, writes, written, genapi>>
    /\ Ack(res, sigs, Append(wrote, <<"Control", 0>>))

\* worker.try_send_signal(StreamSignal::Enable); Ok(())
SendEnable ==
    /\ pc = "enable_sirm"
    /\ res = Ok
    /\ UNCHANGED <<memory, lock, queue, locals, completed, ret, seenA, seenS, enq,
                   deq, writes, written, genapi>>
    /\ Ack(Ok, Append(sigs, Enable), wrote)

(***************************************************************************)
(* SiControlHandler::disable_sirm                                          *)
(***************************************************************************)
\* let (completed_tx, completed_rx) = oneshot::channel();
\* worker.try_send_signal(StreamSignal::Disable(completed_tx));
\* A signal that try_send cannot deliver is dropped, and completed_tx with it.
SendDisable ==
    /\ pc = "disable_sirm"
    /\ \E delivered \in BOOLEAN :
        completed' = IF delivered THEN "pending" ELSE "dropped"
    /\ sigs' = Append(sigs, Disable)
    /\ pc' = "completed_rx"
    /\ UNCHANGED <<memory, lock, queue, error_ack, locals, ret, wrote, seenA, seenS,
                   log, enq, deq, writes, written, genapi>>

\* The stream module completes the disable: completed_tx.send(()).
StreamCompletes ==
    /\ completed = "pending"
    /\ completed' = "completed"
    /\ UNCHANGED <<memory, lock, queue, pc, error_ack, locals, ret, ghosts, log, enq,
                   deq, writes, written, genapi>>

\* The stream module lets go of completed_tx without sending.
StreamDrops ==
    /\ completed = "pending"
    /\ completed' = "dropped"
    /\ UNCHANGED <<memory, lock, queue, pc, error_ack, locals, ret, ghosts, log, enq,
                   deq, writes, written, genapi>>

\* Mutation: the completion is not awaited.
AwaitNothing ==
    /\ pc = "completed_rx"
    /\ completed' = "none"
    /\ UNCHANGED <<memory, lock, queue, locals, ret, seenA, seenS, enq, deq, writes, written, genapi>>
    /\ Ack(Ok, sigs, wrote)

\* Mutation: a dropped sender does not end the wait.
AwaitCompletedOnly ==
    /\ pc = "completed_rx"
    /\ completed = "completed"
    /\ completed' = "none"
    /\ UNCHANGED <<memory, lock, queue, locals, ret, seenA, seenS, enq, deq, writes, written, genapi>>
    /\ Ack(Ok, sigs, wrote)

\* completed_rx.await.ok();   then handle_events yields Ok(())
AwaitCompleted ==
    /\ pc = "completed_rx"
    /\ completed \in {"completed", "dropped"}
    /\ completed' = "none"
    /\ UNCHANGED <<memory, lock, queue, locals, ret, seenA, seenS, enq, deq, writes, written, genapi>>
    /\ Ack(Ok, sigs, wrote)

Next ==
    \/ HostWrite
    \/ HandleEvents
    \/ Process
    \/ Return
    \/ TimestampLatchLock
    \/ TimestampLatchRead
    \/ TimestampLatchWrite
    \/ TimestampLatchDrop
    \/ TimestampLatchSignal
    \/ SiControlRead
    \/ VerifyAlignment
    \/ VerifySize
    \/ WriteBack
    \/ SendEnable
    \/ SendDisable
    \/ StreamCompletes
    \/ StreamDrops
    \/ AwaitCompleted

Spec == Init /\ [][Next]_vars

TypeOK ==
    /\ memory \in [Regs -> Nat]
    /\ lock \in {"free", "handler"}
    /\ pc \in {"idle", "loop", "tl_lock", "tl_read", "tl_write", "tl_drop",
               "tl_signal", "sc_read", "verify_alignment", "verify_size",
               "enable_sirm", "disable_sirm", "completed_rx"}
    /\ error_ack \in {Ok, GenericError, InvalidSiState}
    /\ Len(queue) <= MEMORY_EVENT_CHANNEL_CAPACITY

(***************************************************************************)
(* Vocabulary of the properties.                                           *)
(***************************************************************************)
Last(s) == s[Len(s)]

Range(s) == {s[i] : i \in 1..Len(s)}

\* The step that ends the processing of one event.
EventHandled == Len(log') = Len(log) + 1

\* The first failure among the results of the processed events, or Ok.
FirstFailure(records) ==
    IF \A i \in 1..Len(records) : records[i].result = Ok
    THEN Ok
    ELSE LET first == CHOOSE i \in 1..Len(records) :
                          /\ records[i].result # Ok
                          /\ \A j \in 1..(i - 1) : records[j].result = Ok
         IN  records[first].result

\* The events the current call has taken from the queue, in the order taken.
Drained ==
    [i \in 1..Len(log) |-> log[i].event]
        \o (IF pc \in {"idle", "loop"} THEN <<>> ELSE <<event>>)

IsSuffix(s, t) ==
    /\ Len(s) <= Len(t)
    /\ s = SubSeq(t, Len(t) - Len(s) + 1, Len(t))

\* Some size that must be aligned is not a multiple of SIRM_ALIGNMENT.
Misaligned(m) == \E r \in AlignedRegs : m[r] % SIRM_ALIGNMENT # 0

\* Some specified size is below the required one.
TooSmall(m) ==
    \/ m["MaximumLeaderSize"] < m["RequiredLeaderSize"]
    \/ m["MaximumTrailerSize"] < m["RequiredTrailerSize"]
    \/ m["PayloadTransferSize"] * m["PayloadTransferCount"]
         + m["PayloadFinalTransferSize1"] + m["PayloadFinalTransferSize2"]
         < m["RequiredPayloadSize"]

\* The current event is a SiControl event that found SIRM::Control = 1 and has
\* run both validations.
EnableHandled ==
    /\ EventHandled
    /\ event = "SiControl"
    /\ value = 1
    /\ seenA # <<>>
    /\ seenS # <<>>

(***************************************************************************)
(* C1: handle_events processes the queued events in the order in which     *)
(* they were enqueued (what was dequeued, followed by what is still        *)
(* queued, is what was enqueued, and the events of the current call are    *)
(* the latest ones dequeued), and the value it returns is the result of    *)
(* the first event of the call that failed, or Ok when none failed.        *)
(***************************************************************************)
DrainOrderAndFirstError ==
    /\ deq \o queue = enq
    /\ IsSuffix(Drained, deq)
    /\ (pc = "idle" /\ ret # "none") => ret = FirstFailure(log)

\* Two events of different kinds were drained in enqueue order, both failed
\* with different errors, and the call returned the first one.
DrainOrderWitness ==
    /\ pc = "idle"
    /\ Len(log) = 2
    /\ enq = <<"TimestampLatch", "SiControl">>
    /\ log[1].event = "TimestampLatch"
    /\ log[1].result = GenericError
    /\ log[2].event = "SiControl"
    /\ log[2].result = InvalidSiState
    /\ ret = GenericError

(***************************************************************************)
(* C2: a failure earlier in the batch neither stops the drain nor changes  *)
(* what a later event does: with an error accumulated, a non-empty queue   *)
(* is still popped, and every later event ends with the result, the        *)
(* signals and the register writes its own register values call for.       *)
(***************************************************************************)
EffectsAsObserved(rec) ==
    IF rec.event = "TimestampLatch"
    THEN IF rec.value = 1
         THEN /\ rec.result = Ok
              /\ \E ns \in ClockValues :
                    /\ rec.sigs = <<UpdateTimestamp(ns)>>
                    /\ rec.wrote = <<<<"Timestamp", ns>>>>
         ELSE rec.result = GenericError /\ rec.sigs = <<>> /\ rec.wrote = <<>>
    ELSE IF rec.value = 0
         THEN rec.result = Ok /\ rec.sigs = <<Disable>> /\ rec.wrote = <<>>
    ELSE IF rec.value # 1
         THEN rec.result = GenericError /\ rec.sigs = <<>> /\ rec.wrote = <<>>
    ELSE IF Misaligned(seenA[1]) \/ TooSmall(seenS[1])
         THEN /\ rec.result = InvalidSiState
              /\ rec.sigs = <<>>
              /\ rec.wrote = <<<<"Control", 0>>>>
         ELSE rec.result = Ok /\ rec.sigs = <<Enable>> /\ rec.wrote = <<>>

MisalignedEnableFails ==
    [][(EnableHandled /\ Misaligned(seenA[1]))
          => /\ memory'["Control"] = 0
             /\ Last(log').result = InvalidSiState
             /\ Enable \notin Range(Last(log').sigs)
      ]_vars

\* An enable whose only defect was a misaligned size has been refused.
MisalignedEnableWitness ==
    /\ pc = "loop"
    /\ log # <<>>
    /\ Last(log).event = "SiControl"
    /\ Last(log).value = 1
    /\ seenA # <<>>
    /\ seenS # <<>>
    /\ Misaligned(seenA[1])
    /\ ~TooSmall(seenS[1])
    /\ Last(log).result = InvalidSiState
    /\ Last(log).sigs = <<>>
    /\ memory["Control"] = 0

(***************************************************************************)
(* C4: when a SiControl event found SIRM::Control = 1 and verify_size read *)
(* a leader, trailer or payload size below the required one, 0 is written  *)
(* back to SIRM::Control, the result is InvalidSiState and no Enable       *)
(* signal is sent.                                                         *)
(***************************************************************************)
TooSmallEnableFails ==
    [][(EnableHandled /\ TooSmall(seenS[1]))
          => /\ memory'["Control"] = 0
             /\ Last(log').wrote = <<<<"Control", 0>>>>
             /\ Last(log').result = InvalidSiState
             /\ Enable \notin Range(Last(log').sigs)
      ]_vars

\* An enable whose only defect was a too small payload has been refused.
TooSmallEnableWitness ==
    /\ pc = "loop"
    /\ log # <<>>
    /\ Last(log).event = "SiControl"
    /\ Last(log).value = 1
    /\ seenA # <<>>
    /\ seenS # <<>>
    /\ ~Misaligned(seenA[1])
    /\ seenS[1]["MaximumLeaderSize"] >= seenS[1]["RequiredLeaderSize"]
    /\ seenS[1]["MaximumTrailerSize"] >= seenS[1]["RequiredTrailerSize"]
    /\ TooSmall(seenS[1])
    /\ Last(log).result = InvalidSiState
    /\ Last(log).wrote = <<<<"Control", 0>>>>
    /\ Last(log).sigs = <<>>
    /\ memory["Control"] = 0

(***************************************************************************)
(* C5: when a SiControl event found SIRM::Control = 1 and both validations *)
(* found every condition to hold, the handler sends exactly one Enable     *)
(* signal and nothing else, writes no register and yields Ok; and an       *)
(* Enable signal is sent in no other case.                                 *)
(***************************************************************************)
EnableExactlyWhenValid ==
    [][/\ (EnableHandled /\ ~Misaligned(seenA[1]) /\ ~TooSmall(seenS[1]))
            => /\ Last(log').sigs = <<Enable>>
               /\ Last(log').wrote = <<>>
               /\ Last(log').result = Ok
               /\ memory' = memory
       /\ (Len(sigs') > Len(sigs) /\ Last(sigs') = Enable)
            => /\ EnableHandled
               /\ ~Misaligned(seenA[1])
               /\ ~TooSmall(seenS[1])
      ]_vars

\* A valid configuration has been enabled.
EnableWitness ==
    /\ pc = "loop"
    /\ log # <<>>
    /\ Last(log).event = "SiControl"
    /\ Last(log).value = 1
    /\ Last(log).result = Ok
    /\ Last(log).sigs = <<Enable>>
    /\ Last(log).wrote = <<>>
    /\ memory["Control"] = 1

(***************************************************************************)
(* C6: a SiControl event dispatches on the value SIRM::Control holds when  *)
(* it is read: 1 takes the enable path, 0 the disable path, and any other  *)
(* value yields GenericError with no register written and no signal sent.  *)
(***************************************************************************)
OnEnablePath(rec) ==
    \/ rec.result = Ok /\ rec.sigs = <<Enable>> /\ rec.wrote = <<>>
    \/ rec.result = InvalidSiState /\ rec.sigs = <<>> /\ rec.wrote = <<<<"Control", 0>>>>

OnDisablePath(rec) ==
    rec.result = Ok /\ rec.sigs = <<Disable>> /\ rec.wrote = <<>>

SiControlDispatch ==
    /\ pc \in {"verify_alignment", "verify_size", "enable_sirm"} => value = 1
    /\ pc \in {"disable_sirm", "completed_rx"} => value = 0
    /\ \A i \in 1..Len(log) :
          log[i].event = "SiControl" =>
             IF log[i].value = 1 THEN OnEnablePath(log[i])
             ELSE IF log[i].value = 0 THEN OnDisablePath(log[i])
             ELSE /\ log[i].result = GenericError
                  /\ log[i].sigs = <<>>
                  /\ log[i].wrote = <<>>

\* A SiControl event found 2 in SIRM::Control and failed with GenericError.
SiControlDispatchWitness ==
    /\ pc = "loop"
    /\ log # <<>>
    /\ Last(log).event = "SiControl"
    /\ Last(log).value = 2
    /\ Last(log).result = GenericError
    /\ Last(log).sigs = <<>>
    /\ Last(log).wrote = <<>>
    /\ memory["Control"] = 2

(***************************************************************************)
(* C7: a TimestampLatch event that found ABRM::TimestampLatch = 1 sets     *)
(* ABRM::Timestamp to the device timestamp it read, sends exactly one      *)
(* UpdateTimestamp signal carrying that same value, and yields Ok.         *)
(***************************************************************************)
LatchUpdatesTimestamp ==
    /\ pc \in {"tl_drop", "tl_signal"}
          => /\ value = 1
             /\ timestamp_ns \in ClockValues
             /\ memory["Timestamp"] = timestamp_ns
             /\ wrote = <<<<"Timestamp", timestamp_ns>>>>
             /\ sigs = <<>>
    /\ \A i \in 1..Len(log) :
          (log[i].event = "TimestampLatch" /\ log[i].value = 1)
             => /\ log[i].result = Ok
                /\ \E ns \in ClockValues :
                      /\ log[i].wrote = <<<<"Timestamp", ns>>>>
                      /\ log[i].sigs = <<UpdateTimestamp(ns)>>
    /\ (pc \in {"loop", "idle"} /\ log # <<>> /\ Last(log).event = "TimestampLatch"
           /\ Last(log).value = 1)
          => Last(log).sigs = <<UpdateTimestamp(memory["Timestamp"])>>

\* Scenario: the latch is written 1, the clock reads 7, the call returns Ok.
LatchWitness ==
    /\ pc = "idle"
    /\ Len(log) = 1
    /\ log[1].event = "TimestampLatch"
    /\ log[1].value = 1
    /\ log[1].result = Ok
    /\ log[1].sigs = <<UpdateTimestamp(7)>>
    /\ memory["Timestamp"] = 7
    /\ ret = Ok

(***************************************************************************)
(* C8: a TimestampLatch event that found any value other than 1 in         *)
(* ABRM::TimestampLatch yields GenericError, leaves ABRM::Timestamp as it  *)
(* was and sends no UpdateTimestamp signal.                                *)
(***************************************************************************)
LatchRejectsOtherValues ==
    [][(EventHandled /\ event = "TimestampLatch" /\ Last(log').value # 1)
          => /\ Last(log').result = GenericError
             /\ Last(log').sigs = <<>>
             /\ Last(log').wrote = <<>>
             /\ memory'["Timestamp"] = memory["Timestamp"]
             /\ pc = "tl_read"
      ]_vars

\* Scenario: the latch is written 2; the call returns GenericError, no signal.
LatchRejectsWitness ==
    /\ pc = "idle"
    /\ Len(log) = 1
    /\ log[1].event = "TimestampLatch"
    /\ log[1].value = 2
    /\ log[1].result = GenericError
    /\ log[1].sigs = <<>>
    /\ memory["Timestamp"] = 0
    /\ ret = GenericError

(***************************************************************************)
(* C9: on the successful TimestampLatch path the Timestamp register is     *)
(* written while the memory lock is held, the lock is released next, and   *)
(* the UpdateTimestamp signal is sent only after that: no signal is sent   *)
(* while the handler holds the memory lock.                                *)
(***************************************************************************)
LatchWriteReleaseSignal ==
    [][/\ (event = "TimestampLatch" /\ Len(wrote') > Len(wrote))
            => lock = "handler" /\ lock' = "handler" /\ sigs' = <<>>
       /\ Len(sigs') > Len(sigs) => lock = "free"
       /\ (Len(sigs') > Len(sigs) /\ Last(sigs').sig = "UpdateTimestamp")
            => wrote = <<<<"Timestamp", Last(sigs').ns>>>>
      ]_vars

\* The register is written and the lock released; the signal is about to be sent.
LatchOrderWitness ==
    /\ pc = "tl_signal"
    /\ lock = "free"
    /\ wrote = <<<<"Timestamp", timestamp_ns>>>>
    /\ memory["Timestamp"] = timestamp_ns
    /\ sigs = <<>>

(***************************************************************************)
(* C10: a SiControl event that found SIRM::Control = 0 sends Disable with  *)
(* a completion channel and neither ends nor lets the next queued event    *)
(* start before the stream module has signalled completion on that         *)
(* channel.                                                                *)
(***************************************************************************)
DisableAwaitsCompletionSignal ==
    [][(pc = "completed_rx" /\ pc' # "completed_rx") => completed = "completed"]_vars

(***************************************************************************)
(* C10 as amended: the event neither ends nor lets the next queued event   *)
(* start before the completion channel is resolved, that is before the     *)
(* stream module has signalled completion on it or the completion sender   *)
(* has been dropped.                                                       *)
(***************************************************************************)
DisableAwaitsCompletionOrDrop ==
    [][/\ pc = "completed_rx"
            => /\ value = 0
               /\ sigs = <<Disable>>
               /\ completed # "none"
       /\ (pc = "completed_rx" /\ completed = "pending")
            => pc' = "completed_rx" /\ deq' = deq /\ log' = log
       /\ (pc = "completed_rx" /\ pc' # "completed_rx")
            => /\ completed \in {"completed", "dropped"}
               /\ EventHandled
               /\ Last(log').result = Ok
      ]_vars

\* The handler waits on a delivered Disable while another event is queued.
DisableAwaitsWitness ==
    /\ pc = "completed_rx"
    /\ completed = "pending"
    /\ sigs = <<Disable>>
    /\ queue # <<>>

(***************************************************************************)
(* The observers alone, on a channel that already holds a backlog: the     *)
(* host has written SIRM::Control (with 0, the value it holds) once per    *)
(* queued event and no worker has drained the channel since.               *)
(***************************************************************************)
Backlog == MEMORY_EVENT_CHANNEL_CAPACITY - 2

InitBacklog ==
    /\ memory = InitMemory
    /\ lock = "free"
    /\ queue = [i \in 1..Backlog |-> EventOf("Control")]
    /\ pc = "idle"
    /\ error_ack = Ok
    /\ event = "none"
    /\ value = 0
    /\ res = Ok
    /\ timestamp_ns = 0
    /\ completed = "none"
    /\ ret = "none"
    /\ sigs = <<>>
    /\ wrote = <<>>
    /\ seenA = <<>>
    /\ seenS = <<>>
    /\ log = <<>>
    /\ enq = queue
    /\ deq = <<>>
    /\ writes = 0
    /\ written = [i \in 1..Backlog |-> "Control"]
    /\ InitGenApi

NextBacklog == HostWrite

SpecBacklog == InitBacklog /\ [][NextBacklog]_vars

(***************************************************************************)
(* C11: the queue never holds more than MEMORY_EVENT_CHANNEL_CAPACITY      *)
(* events; a host write is never held up by the queue (it can be made      *)
(* whenever the memory lock is free, however full the queue is); and a     *)
(* write to an observed register made while the queue is full leaves the   *)
(* queue as it was, its event being discarded, while the register still    *)
(* takes the written value.                                                *)
(***************************************************************************)
QueueBoundedDropOnFull ==
    [][/\ Len(queue) <= MEMORY_EVENT_CHANNEL_CAPACITY
       /\ Len(queue') <= MEMORY_EVENT_CHANNEL_CAPACITY
       /\ (lock = "free" /\ writes < MaxWrites) => ENABLED HostWrite
       /\ (Len(written') > Len(written)
             /\ Len(queue) = MEMORY_EVENT_CHANNEL_CAPACITY)
            => /\ queue' = queue
               /\ enq' = enq
               /\ \E val \in HostValues(Last(written')) :
                     memory' = [memory EXCEPT ![Last(written')] = val]
      ]_vars

\* The queue is full, and the last write, of 2 to SIRM::Control, was made but
\* its event discarded.
QueueFullWitness ==
    /\ Len(queue) = MEMORY_EVENT_CHANNEL_CAPACITY
    /\ Len(written) = MEMORY_EVENT_CHANNEL_CAPACITY + 1
    /\ Last(written) = "Control"
    /\ memory["Control"] = 2
    /\ Last(queue) = "TimestampLatch"

(***************************************************************************)
(* C12: while the queue is not full, every host write to                   *)
(* ABRM::TimestampLatch enqueues exactly one TimestampLatch event, every   *)
(* write to SIRM::Control exactly one SiControl event, and a write to any  *)
(* other register none, so the events enqueued so far are, in order, those *)
(* of the writes to the two observed registers.                            *)
(***************************************************************************)
EventExpected(reg) ==
    CASE reg = "TimestampLatch" -> "TimestampLatch"
      [] reg = "Control"        -> "SiControl"

OneEventPerObservedWrite ==
    [][/\ Len(queue) < MEMORY_EVENT_CHANNEL_CAPACITY
            => /\ Len(enq) = Len(written)
               /\ \A i \in 1..Len(written) : enq[i] = EventExpected(written[i])
       /\ (Len(written') > Len(written)
             /\ Len(queue) < MEMORY_EVENT_CHANNEL_CAPACITY)
            => queue' = Append(queue, EventExpected(Last(written')))
       /\ (writes' # writes /\ written' = written) => queue' = queue
      ]_vars

\* Three writes to the observed registers have queued their three events in the
\* order of the writes.
WriteOrderWitness ==
    /\ written = <<"Control", "TimestampLatch", "Control">>
    /\ queue = <<"SiControl", "TimestampLatch", "SiControl">>
    /\ enq = queue

(***************************************************************************)
(* C13: while a SiControl enable event is handled, from the read of        *)
(* SIRM::Control through both validations to the write-back of 0 or the    *)
(* decision to enable, no other worker modifies SIRM::Control or a SIRM    *)
(* size register.                                                          *)
(***************************************************************************)
EnableSequenceUninterrupted ==
    [][(pc \in {"verify_alignment", "verify_size", "enable_sirm"} /\ writes' # writes)
          => \A r \in SizeRegs \cup {"Control"} : memory'[r] = memory[r]
      ]_vars

(***************************************************************************)
(* C14: while a TimestampLatch event is handled, the memory lock is held   *)
(* from the read of ABRM::TimestampLatch through the validation to the     *)
(* write of ABRM::Timestamp: no host write is made in between, and the     *)
(* only register that changes is ABRM::Timestamp, written by the handler.  *)
(***************************************************************************)
LatchSequenceHoldsLock ==
    [][/\ pc \in {"tl_read", "tl_write", "tl_drop"} => lock = "handler"
       /\ pc \in {"tl_read", "tl_write"}
            => /\ writes' = writes
               /\ queue' = queue
               /\ \A r \in Regs \ {"Timestamp"} : memory'[r] = memory[r]
               /\ memory'["Timestamp"] # memory["Timestamp"] => pc = "tl_write"
       /\ pc = "tl_write" => value = 1 /\ memory["TimestampLatch"] = 1
      ]_vars

\* The handler has validated the latch and holds the lock; the host has a write
\* left to make and cannot make it.
LatchLockWitness ==
    /\ pc = "tl_write"
    /\ lock = "handler"
    /\ value = 1
    /\ writes < MaxWrites
    /\ ~ENABLED HostWrite

(***************************************************************************)
(* C15: handle_events never waits for an event: inside the loop it can     *)
(* always take its next step at once; with nothing processed and the queue *)
(* empty that step returns Ok without touching the memory lock, a register *)
(* or a signal; and whenever it returns, the queue is empty at that step.  *)
(***************************************************************************)
DrainNeverWaits ==
    [][/\ pc = "loop" => ENABLED (Process \/ Return)
       /\ (pc = "loop" /\ pc' = "idle")
            => /\ queue = <<>>
               /\ ret' = error_ack
               /\ memory' = memory
               /\ lock' = lock
               /\ sigs' = sigs
               /\ wrote' = wrote
       /\ (pc = "loop" /\ pc' # "loop" /\ queue = <<>> /\ log = <<>>)
            => /\ pc' = "idle"
               /\ ret' = Ok
               /\ lock = "free"
      ]_vars

\* handle_events was called on an empty queue and returned Ok; nothing else
\* has happened.
EmptyDrainWitness ==
    /\ pc = "idle"
    /\ ret = Ok
    /\ log = <<>>
    /\ enq = <<>>
    /\ lock = "free"
    /\ memory = InitMemory


(***************************************************************************)
(* The GenApi stores: genapi/src/store.rs.                                 *)
(*                                                                         *)
(* A ValueCtxt holds the value store and the cache store exclusively for   *)
(* one call, so every call on a store is one step.                         *)
(***************************************************************************)
NodeIds == 0..MaxNode
Addresses == 0..MaxAddress
Lengths == 1..MaxLength

\* The bytes a device read or write of `length` bytes may carry.
ByteValues == {17, 34}
Bytes(length) == {[i \in 1..length |-> b] : b \in ByteValues}

\* Every key of the two-level cache map.
Keys == NodeIds \X Addresses \X Lengths

\* HashMap::insert: the entry under k is created or replaced.
Put(map, k, v) == [x \in DOMAIN map \cup {k} |-> IF x = k THEN v ELSE map[x]]

\* HashMap::get(..) as the map itself, empty when the key is absent.
Level1(st, nid) == IF nid \in DOMAIN st THEN st[nid] ELSE EmptyMap

(***************************************************************************)
(* DefaultCacheStore                                                       *)
(***************************************************************************)
\* self.invalidators.entry(invalidator).or_default().push(target)
store_invalidator(inv, invalidator, target) ==
    Put(inv, invalidator,
        Append(IF invalidator \in DOMAIN inv THEN inv[invalidator] ELSE <<>>, target))

\* Mutation: the entry is filed under the address alone.
cache_by_address(st, nid, address, length, data) ==
    Put(st, nid, Put(Level1(st, nid), <<address, 1>>, data))

\* The entry (address, length) of nid is inserted, or replaced when present.
cache(st, nid, address, length, data) ==
    Put(st, nid, Put(Level1(st, nid), <<address, length>>, data))

\* Some(self.store.get(&nid)?.get(&(address, length))?.as_ref())
get_cache(st, nid, address, length) ==
    IF nid \in DOMAIN st
    THEN IF <<address, length>> \in DOMAIN st[nid]
         THEN Some(st[nid][<<address, length>>])
         ELSE None
    ELSE None

\* Mutation: every node's cache is replaced by an empty one.
invalidate_of_every_node(st, nid) == [n \in DOMAIN st |-> EmptyMap]

\* if let Some(cache) = self.store.get_mut(&nid) { *cache = HashMap::new(); }
invalidate_of(st, nid) ==
    IF nid \in DOMAIN st THEN [st EXCEPT ![nid] = EmptyMap] ELSE st

\* for nid in target_nodes { if let Some(cache) = .. { *cache = HashMap::new(); } }
RECURSIVE invalidate_targets(_, _)
invalidate_targets(st, target_nodes) ==
    IF target_nodes = <<>>
    THEN st
    ELSE invalidate_targets(invalidate_of(st, Head(target_nodes)), Tail(target_nodes))

\* Mutation: the invalidator's own cache is emptied with those of its targets.
invalidate_by_and_self(st, inv, nid) ==
    IF nid \in DOMAIN inv THEN invalidate_of(invalidate_targets(st, inv[nid]), nid) ELSE st

\* if let Some(target_nodes) = self.invalidators.get(&nid) { .. }
invalidate_by(st, inv, nid) ==
    IF nid \in DOMAIN inv THEN invalidate_targets(st, inv[nid]) ELSE st

\* self.store.clear()
clear(st) == EmptyMap

(***************************************************************************)
(* CacheSink                                                               *)
(***************************************************************************)
CacheSink_store_invalidator(s, invalidator, target) == s

CacheSink_cache(s, nid, address, length, data) == s

\* Mutation: the sink answers with an empty slice.
CacheSink_get_cache_empty(s, nid, address, length) == Some(<<>>)

CacheSink_get_cache(s, nid, address, length) == None

CacheSink_invalidate_by(s, nid) == s

CacheSink_invalidate_of(s, nid) == s

CacheSink_clear(s) == s

(***************************************************************************)
(* DefaultValueStore                                                       *)
(***************************************************************************)
\* ValueData: the arm and its payload (the fields of the other arms are blank).
Integer(v) == [arm |-> "Integer", i |-> v, f |-> 0, s |-> ""]
Float(v) == [arm |-> "Float", i |-> 0, f |-> v, s |-> ""]
Str(v) == [arm |-> "Str", i |-> 0, f |-> 0, s |-> v]

\* Mutation: the id is the length after the push.
store_id_after_push(vs) == Len(vs) + 1

\* let id = u32::try_from(self.0.len()).expect(..)
store_id(vs) == Len(vs)

\* self.0.push(data.into())
store(vs, data) == Append(vs, data)

\* self.0.get(id as usize)
value_opt(vs, id) == IF id < Len(vs) THEN Some(vs[id + 1]) ELSE None

\* Mutation: an id at or beyond the length appends the value.
update_or_push(vs, id, val) ==
    IF id < Len(vs) THEN [vs EXCEPT ![id + 1] = val] ELSE Append(vs, val)

\* self.0.get_mut(id as usize).map(|old| std::mem::replace(old, value.into()))
update(vs, id, val) == IF id < Len(vs) THEN [vs EXCEPT ![id + 1] = val] ELSE vs
update_ret(vs, id) == value_opt(vs, id)

\* Mutation: a Float slot is read as an integer.
integer_value_converting(vs, id) ==
    IF value_opt(vs, id) = None
    THEN None
    ELSE IF value_opt(vs, id)[1].arm = "Integer"
         THEN Some(value_opt(vs, id)[1].i)
         ELSE IF value_opt(vs, id)[1].arm = "Float"
              THEN Some(value_opt(vs, id)[1].f)
              ELSE None

\* if let ValueData::Integer(i) = self.value_opt(id)? { Some(*i) } else { None }
integer_value(vs, id) ==
    IF value_opt(vs, id) = None
    THEN None
    ELSE IF value_opt(vs, id)[1].arm = "Integer"
         THEN Some(value_opt(vs, id)[1].i)
         ELSE None

\* if let ValueData::Float(f) = self.value_opt(id)? { Some(*f) } else { None }
float_value(vs, id) ==
    IF value_opt(vs, id) = None
    THEN None
    ELSE IF value_opt(vs, id)[1].arm = "Float"
         THEN Some(value_opt(vs, id)[1].f)
         ELSE None

\* if let ValueData::Str(s) = self.value_opt(id)? { Some(s) } else { None }
str_value(vs, id) ==
    IF value_opt(vs, id) = None
    THEN None
    ELSE IF value_opt(vs, id)[1].arm = "Str"
         THEN Some(value_opt(vs, id)[1].s)
         ELSE None

(***************************************************************************)
(* The nodes that write: node 0 is an IntegerNode, node 1 an               *)
(* EnumerationNode with the entry values 0 and 1; each keeps its value as  *)
(* an immediate in the value store (ValueKind::Value).  Any other node is  *)
(* a register.                                                             *)
(***************************************************************************)
IntegerNodes == {0}
EnumerationNodes == {1}
EntryValues == {0, 1}
SetValues == {1, 2}

\* ValueKind::Value(id) of node n
value_id(n) == n

\* The node's value is an immediate of the value store (ImmOrPNode::Imm);
\* otherwise it names another node (PNode, pValue), whose write can fail.
has_immediate(vs, n) == value_opt(vs, value_id(n)) # None

\* What the write to a node named as value source answers.
WriteResults == {"Ok", "NotWritable"}

\* The cached entries of a store, as keys.
Entries(st) == {k \in Keys : get_cache(st, k[1], k[2], k[3]) # None}

\* Number of entries a step removes.
Gone == Cardinality(Entries(cache_store) \ Entries(cache_store'))

\* Number of entries whose bytes a step replaces by other bytes.
Replaced ==
    Cardinality({k \in Entries(cache_store) \cap Entries(cache_store') :
                    get_cache(cache_store', k[1], k[2], k[3])
                        # get_cache(cache_store, k[1], k[2], k[3])})

\* A call is made: it is counted and recorded.
Called(c) ==
    /\ call.result # "panic"
    /\ calls < MaxCalls
    /\ calls' = calls + 1
    /\ call' = c

(***************************************************************************)
(* Calls on the DefaultCacheStore.                                         *)
(***************************************************************************)
StoreInvalidator ==
    \E invalidator \in NodeIds : \E target \in NodeIds :
        /\ invalidators' = store_invalidator(invalidators, invalidator, target)
        /\ Called([NoCall EXCEPT !.op = "store_invalidator", !.nid = invalidator,
                                 !.target = target])
        /\ UNCHANGED <<emulator, cache_store, sink, values, offered, ids, id_arms, node_vars, codec, payload>>

Cache ==
    \E nid \in NodeIds : \E address \in Addresses : \E length \in Lengths :
      \E data \in Bytes(length) :
        /\ cache_store' = cache(cache_store, nid, address, length, data)
        /\ Called([NoCall EXCEPT !.op = "cache", !.nid = nid, !.address = address,
                                 !.length = length, !.data = data, !.gone = Gone,
                                 !.replaced = Replaced])
        /\ UNCHANGED <<emulator, invalidators, sink, values, offered, ids, id_arms, node_vars, codec, payload>>

GetCache ==
    \E nid \in NodeIds : \E address \in Addresses : \E length \in Lengths :
        /\ Called([NoCall EXCEPT !.op = "get_cache", !.nid = nid, !.address = address,
                                 !.length = length,
                                 !.ret = get_cache(cache_store, nid, address, length)])
        /\ UNCHANGED <<emulator, cache_store, invalidators, sink, values, offered, ids, id_arms, node_vars, codec, payload>>

InvalidateBy ==
    \E nid \in NodeIds :
        /\ cache_store' = invalidate_by(cache_store, invalidators, nid)
        /\ Called([NoCall EXCEPT !.op = "invalidate_by", !.nid = nid, !.gone = Gone])
        /\ UNCHANGED <<emulator, invalidators, sink, values, offered, ids, id_arms, node_vars, codec, payload>>

InvalidateOf ==
    \E nid \in NodeIds :
        /\ cache_store' = invalidate_of(cache_store, nid)
        /\ Called([NoCall EXCEPT !.op = "invalidate_of", !.nid = nid, !.gone = Gone])
        /\ UNCHANGED <<emulator, invalidators, sink, values, offered, ids, id_arms, node_vars, codec, payload>>

\* Mutation: clear empties the invalidator map with the caches.
ClearWithInvalidators ==
    /\ cache_store' = clear(cache_store)
    /\ invalidators' = EmptyMap
    /\ Called([NoCall EXCEPT !.op = "clear", !.gone = Gone])
    /\ UNCHANGED <<emulator, sink, values, offered, ids, id_arms, node_vars, codec, payload>>

Clear ==
    /\ cache_store' = clear(cache_store)
    /\ Called([NoCall EXCEPT !.op = "clear", !.gone = Gone])
    /\ UNCHANGED <<emulator, invalidators, sink, values, offered, ids, id_arms, node_vars, codec, payload>>

(***************************************************************************)
(* IntegerNode::set_value (genapi/src/integer.rs)                          *)
(***************************************************************************)
\* Mutation: the value is written without invalidating.
IntegerSetValueKeepsCaches ==
    \E n \in IntegerNodes : \E v \in SetValues :
        /\ values' = update(values, value_id(n), Integer(v))
        /\ Called([NoCall EXCEPT !.op = "set_value", !.nid = n, !.value = Some(v)])
        /\ UNCHANGED <<emulator, cache_store, invalidators, sink, offered, ids, id_arms, node_vars, codec, payload>>

\* Mutation: the write comes first and its error returns before the caches
\* are invalidated.
IntegerSetValueWritesFirst ==
    \E n \in IntegerNodes : \E v \in SetValues :
        /\ IF has_immediate(values, n)
           THEN /\ cache_store' = invalidate_by(cache_store, invalidators, n)
                /\ values' = update(values, value_id(n), Integer(v))
                /\ Called([NoCall EXCEPT !.op = "set_value", !.nid = n,
                                         !.value = Some(v), !.gone = Gone])
           ELSE \E wr \in WriteResults :
                    /\ cache_store' = IF wr = "Ok"
                                      THEN invalidate_by(cache_store, invalidators, n)
                                      ELSE cache_store
                    /\ values' = values
                    /\ Called([NoCall EXCEPT !.op = "set_value", !.nid = n,
                                             !.value = Some(v), !.result = wr,
                                             !.gone = Gone])
        /\ UNCHANGED <<emulator, invalidators, sink, offered, ids, id_arms, node_vars, codec, payload>>

\* cx.invalidate_cache_by(id); self.value_kind().set_value(value, ..)
\* An immediate is updated in the value store; the write to a value node
\* answers with a result of its own.
IntegerSetValue ==
    \E n \in IntegerNodes : \E v \in SetValues :
        /\ cache_store' = invalidate_by(cache_store, invalidators, n)
        /\ IF has_immediate(values, n)
           THEN /\ values' = update(values, value_id(n), Integer(v))
                /\ Called([NoCall EXCEPT !.op = "set_value", !.nid = n,
                                         !.value = Some(v), !.gone = Gone])
           ELSE \E wr \in WriteResults :
                    /\ values' = values
                    /\ Called([NoCall EXCEPT !.op = "set_value", !.nid = n,
                                             !.value = Some(v), !.result = wr,
                                             !.gone = Gone])
        /\ UNCHANGED <<emulator, invalidators, sink, offered, ids, id_arms, node_vars, codec, payload>>

(***************************************************************************)
(* EnumerationNode::set_entry_by_value (genapi/src/enumeration.rs)         *)
(***************************************************************************)
\* Mutation: the caches are invalidated before the value is looked up.
EnumerationSetEntryByValueInvalidatesFirst ==
    \E n \in EnumerationNodes : \E v \in SetValues :
        /\ cache_store' = invalidate_by(cache_store, invalidators, n)
        /\ IF v \notin EntryValues
           THEN /\ Called([NoCall EXCEPT !.op = "set_entry_by_value", !.nid = n,
                                         !.value = Some(v), !.result = "InvalidData",
                                         !.gone = Gone])
                /\ UNCHANGED values
           ELSE /\ values' = update(values, value_id(n), Integer(v))
                /\ Called([NoCall EXCEPT !.op = "set_entry_by_value", !.nid = n,
                                         !.value = Some(v), !.gone = Gone])
        /\ UNCHANGED <<emulator, invalidators, sink, offered, ids, id_arms, node_vars, codec, payload>>

EnumerationSetEntryByValue ==
    \E n \in EnumerationNodes : \E v \in SetValues :
        IF v \notin EntryValues
        THEN /\ Called([NoCall EXCEPT !.op = "set_entry_by_value", !.nid = n,
                                      !.value = Some(v), !.result = "InvalidData"])
             /\ UNCHANGED <<emulator, cache_store, invalidators, sink, values,
                            offered, ids, id_arms, node_vars, codec, payload>>
        ELSE /\ cache_store' = invalidate_by(cache_store, invalidators, n)
             /\ IF has_immediate(values, n)
                THEN /\ values' = update(values, value_id(n), Integer(v))
                     /\ Called([NoCall EXCEPT !.op = "set_entry_by_value", !.nid = n,
                                              !.value = Some(v), !.gone = Gone])
                ELSE \E wr \in WriteResults :
                         /\ values' = values
                         /\ Called([NoCall EXCEPT !.op = "set_entry_by_value",
                                                  !.nid = n, !.value = Some(v),
                                                  !.result = wr, !.gone = Gone])
             /\ UNCHANGED <<emulator, invalidators, sink, offered, ids, id_arms, node_vars, codec, payload>>

\* The stores once the builder has stored the immediates of nodes 0 and 1.
InitCache ==
    /\ InitEmulator
    /\ cache_store = EmptyMap
    /\ invalidators = EmptyMap
    /\ sink = CacheSink
    /\ values = <<Integer(0), Integer(0)>>
    /\ offered = {}
    /\ ids = <<0, 1>>
    /\ id_arms = <<"Integer", "Integer">>
    /\ interner = <<>>
    /\ nodes = <<>>
    /\ fresh_id = 0
    /\ codec = NoCodec
    /\ payload = NoPayload
    /\ call = NoCall
    /\ calls = 0

NextCache ==
    \/ StoreInvalidator
    \/ Cache
    \/ GetCache
    \/ InvalidateBy
    \/ InvalidateOf
    \/ Clear
    \/ IntegerSetValue
    \/ EnumerationSetEntryByValue

SpecCache == InitCache /\ [][NextCache]_vars

\* The stores when nodes 0 and 1 take their values from other nodes (no
\* immediate is stored for them) and nodes 1 and 2 hold cached bytes.
InitDelegated ==
    /\ InitEmulator
    /\ cache_store = cache(cache(EmptyMap, 2, 0, 1, <<17>>), 1, 1, 1, <<34>>)
    /\ invalidators = EmptyMap
    /\ sink = CacheSink
    /\ values = <<>>
    /\ offered = {}
    /\ ids = <<>>
    /\ id_arms = <<>>
    /\ interner = <<>>
    /\ nodes = <<>>
    /\ fresh_id = 0
    /\ codec = NoCodec
    /\ payload = NoPayload
    /\ call = NoCall
    /\ calls = 0

NextDelegated ==
    \/ StoreInvalidator
    \/ IntegerSetValue
    \/ EnumerationSetEntryByValue

SpecDelegated == InitDelegated /\ [][NextDelegated]_vars

(***************************************************************************)
(* Calls on the CacheSink.                                                 *)
(***************************************************************************)
SinkStoreInvalidator ==
    \E invalidator \in NodeIds : \E target \in NodeIds :
        /\ sink' = CacheSink_store_invalidator(sink, invalidator, target)
        /\ Called([NoCall EXCEPT !.op = "store_invalidator", !.nid = invalidator,
                                 !.target = target])
        /\ UNCHANGED <<emulator, cache_store, invalidators, values, offered, ids, id_arms, node_vars, codec, payload>>

SinkCache ==
    \E nid \in NodeIds : \E address \in Addresses : \E length \in Lengths :
      \E data \in Bytes(length) :
        /\ sink' = CacheSink_cache(sink, nid, address, length, data)
        /\ offered' = offered \cup {<<nid, address, length>>}
        /\ Called([NoCall EXCEPT !.op = "cache", !.nid = nid, !.address = address,
                                 !.length = length, !.data = data])
        /\ UNCHANGED <<emulator, cache_store, invalidators, values, ids, id_arms, node_vars, codec, payload>>

SinkGetCache ==
    \E nid \in NodeIds : \E address \in Addresses : \E length \in Lengths :
        /\ Called([NoCall EXCEPT !.op = "get_cache", !.nid = nid, !.address = address,
                                 !.length = length,
                                 !.ret = CacheSink_get_cache(sink, nid, address, length)])
        /\ UNCHANGED <<emulator, cache_store, invalidators, sink, values, offered, ids, id_arms, node_vars, codec, payload>>

SinkInvalidateBy ==
    \E nid \in NodeIds :
        /\ sink' = CacheSink_invalidate_by(sink, nid)
        /\ Called([NoCall EXCEPT !.op = "invalidate_by", !.nid = nid])
        /\ UNCHANGED <<emulator, cache_store, invalidators, values, offered, ids, id_arms, node_vars, codec, payload>>

SinkInvalidateOf ==
    \E nid \in NodeIds :
        /\ sink' = CacheSink_invalidate_of(sink, nid)
        /\ Called([NoCall EXCEPT !.op = "invalidate_of", !.nid = nid])
        /\ UNCHANGED <<emulator, cache_store, invalidators, values, offered, ids, id_arms, node_vars, codec, payload>>

SinkClear ==
    /\ sink' = CacheSink_clear(sink)
    /\ Called([NoCall EXCEPT !.op = "clear"])
    /\ UNCHANGED <<emulator, cache_store, invalidators, values, offered, ids, id_arms, node_vars, codec, payload>>

NextSink ==
    \/ SinkStoreInvalidator
    \/ SinkCache
    \/ SinkGetCache
    \/ SinkInvalidateBy
    \/ SinkInvalidateOf
    \/ SinkClear

SpecSink == Init /\ [][NextSink]_vars

(***************************************************************************)
(* Calls on the DefaultValueStore.                                         *)
(***************************************************************************)
\* The values the builder and the nodes hand to the store.
ValueInputs == <<Integer(1), Integer(2), Float(1), Str("a")>>

Store ==
    \E i \in DOMAIN ValueInputs : LET data == ValueInputs[i] IN
        /\ values' = store(values, data)
        /\ ids' = Append(ids, store_id(values))
        /\ Called([NoCall EXCEPT !.op = "store", !.value = Some(data),
                                 !.id = store_id(values)])
        /\ id_arms' = Append(id_arms, data.arm)
        /\ UNCHANGED <<emulator, cache_store, invalidators, sink, offered, node_vars, codec, payload>>

ValueOpt ==
    \E id \in 0..MaxCalls :
        /\ Called([NoCall EXCEPT !.op = "value_opt", !.id = id,
                                 !.ret = value_opt(values, id)])
        /\ UNCHANGED <<emulator, cache_store, invalidators, sink, values, offered, ids, id_arms, node_vars, codec, payload>>

Update ==
    \E id \in 0..MaxCalls : \E i \in DOMAIN ValueInputs : LET data == ValueInputs[i] IN
        /\ values' = update(values, id, data)
        /\ Called([NoCall EXCEPT !.op = "update", !.id = id, !.value = Some(data),
                                 !.ret = update_ret(values, id)])
        /\ UNCHANGED <<emulator, cache_store, invalidators, sink, offered, ids, id_arms, node_vars, codec, payload>>

IntegerValue ==
    \E id \in 0..MaxCalls :
        /\ Called([NoCall EXCEPT !.op = "integer_value", !.id = id,
                                 !.ret = integer_value(values, id)])
        /\ UNCHANGED <<emulator, cache_store, invalidators, sink, values, offered, ids,
                       id_arms, node_vars, codec, payload>>

FloatValue ==
    \E id \in 0..MaxCalls :
        /\ Called([NoCall EXCEPT !.op = "float_value", !.id = id,
                                 !.ret = float_value(values, id)])
        /\ UNCHANGED <<emulator, cache_store, invalidators, sink, values, offered, ids,
                       id_arms, node_vars, codec, payload>>

StrValue ==
    \E id \in 0..MaxCalls :
        /\ Called([NoCall EXCEPT !.op = "str_value", !.id = id,
                                 !.ret = str_value(values, id)])
        /\ UNCHANGED <<emulator, cache_store, invalidators, sink, values, offered, ids,
                       id_arms, node_vars, codec, payload>>

NextValues ==
    \/ Store
    \/ ValueOpt
    \/ Update
    \/ IntegerValue
    \/ FloatValue
    \/ StrValue

SpecValues == Init /\ [][NextValues]_vars

(***************************************************************************)
(* DefaultNodeStore                                                        *)
(*                                                                         *)
(* The interner is a StringInterner with NodeId as its symbol: a name gets *)
(* the number of names interned before it.                                 *)
(***************************************************************************)
\* The node names of the description file.
Names == {"Width", "Height", "Gain"}

\* The kinds of node the builder stores.
NodeKinds == {"Integer", "Enumeration"}

\* self.interner.get(s)
id_by_name(names, s) ==
    IF \E k \in 1..Len(names) : names[k] = s
    THEN Some((CHOOSE k \in 1..Len(names) : names[k] = s) - 1)
    ELSE None

\* self.interner.resolve(nid)
name_by_id(names, nid) == IF nid < Len(names) THEN Some(names[nid + 1]) ELSE None

\* Mutation: every call interns the name anew.
get_or_intern_anew(names, s) == Append(names, s)

\* self.interner.get_or_intern(s): the interner afterwards
get_or_intern(names, s) ==
    IF id_by_name(names, s) # None THEN names ELSE Append(names, s)

\* self.interner.get_or_intern(s): the NodeId returned
get_or_intern_id(names, s) == id_by_name(get_or_intern(names, s), s)[1]

\* self.store.get(nid.to_usize())?.as_ref()
node_opt(ns, nid) == IF nid < Len(ns) THEN ns[nid + 1] ELSE None

\* if self.store.len() <= id { self.store.resize(id + 1, None) }
resize(ns, len) == [k \in 1..len |-> IF k <= Len(ns) THEN ns[k] ELSE None]

\* self.store[id] = Some(data), after the resize
store_node(ns, nid, data) ==
    [(IF Len(ns) <= nid THEN resize(ns, nid + 1) ELSE ns) EXCEPT ![nid + 1] = Some(data)]

\* Mutation: the counter is returned after the increment.
fresh_id_incremented(f) == f + 1

\* let id = self.fresh_id;
fresh_id_returned(f) == f

\* self.fresh_id += 1 (no overflow of the u32 within the calls of one behaviour)
fresh_id_next(f) == f + 1

\* The NodeIds handed out so far.
HandedOut == 0..(Len(interner) - 1)

(***************************************************************************)
(* Calls on the DefaultNodeStore.                                          *)
(***************************************************************************)
NodeFrame == UNCHANGED <<emulator, cache_store, invalidators, sink, values, offered, ids,
                         id_arms, codec, payload>>

GetOrIntern ==
    \E s \in Names :
        /\ interner' = get_or_intern(interner, s)
        /\ Called([NoCall EXCEPT !.op = "get_or_intern", !.name = s,
                                 !.id = get_or_intern_id(interner, s)])
        /\ UNCHANGED <<nodes, fresh_id>>
        /\ NodeFrame

IdByName ==
    \E s \in Names :
        /\ Called([NoCall EXCEPT !.op = "id_by_name", !.name = s,
                                 !.ret = id_by_name(interner, s)])
        /\ UNCHANGED node_vars
        /\ NodeFrame

NameById ==
    \E nid \in NodeIds :
        /\ Called([NoCall EXCEPT !.op = "name_by_id", !.nid = nid,
                                 !.ret = name_by_id(interner, nid)])
        /\ UNCHANGED node_vars
        /\ NodeFrame

NodeOpt ==
    \E nid \in NodeIds :
        /\ Called([NoCall EXCEPT !.op = "node_opt", !.nid = nid,
                                 !.ret = node_opt(nodes, nid)])
        /\ UNCHANGED node_vars
        /\ NodeFrame

\* store_node on a NodeId handed out before.  In a release build the debug_assert
\* is compiled out and an occupied slot is overwritten.
StoreNode ==
    \E nid \in HandedOut : \E kind \in NodeKinds :
        /\ nodes' = store_node(nodes, nid, [id |-> nid, kind |-> kind])
        /\ Called([NoCall EXCEPT !.op = "store_node", !.nid = nid,
                                 !.value = Some([id |-> nid, kind |-> kind])])
        /\ UNCHANGED <<interner, fresh_id>>
        /\ NodeFrame

\* debug_assert!(self.store[id].is_none()) fails in a debug build.
StoreNodeDebugAssert ==
    \E nid \in HandedOut : \E kind \in NodeKinds :
        /\ node_opt(nodes, nid) # None
        /\ Called([NoCall EXCEPT !.op = "store_node", !.nid = nid,
                                 !.value = Some([id |-> nid, kind |-> kind]),
                                 !.result = "panic"])
        /\ UNCHANGED node_vars
        /\ NodeFrame

FreshId ==
    /\ fresh_id' = fresh_id_next(fresh_id)
    /\ Called([NoCall EXCEPT !.op = "fresh_id", !.id = fresh_id_returned(fresh_id)])
    /\ UNCHANGED <<interner, nodes>>
    /\ NodeFrame

NextNodes ==
    \/ GetOrIntern
    \/ IdByName
    \/ NameById
    \/ NodeOpt
    \/ StoreNode
    \/ StoreNodeDebugAssert
    \/ FreshId

SpecNodes == Init /\ [][NextNodes]_vars

(***************************************************************************)
(* EnumerationNode (genapi/src/enumeration.rs) and the access queries of   *)
(* IntegerNode (genapi/src/integer.rs).                                    *)
(*                                                                         *)
(* The enumeration is node 1; its entries are the nodes 10 and 11, with    *)
(* unique symbolic names and unique values.                                *)
(***************************************************************************)
EnumEntries ==
    <<[nid |-> 10, symbolic |-> "Off", value |-> 0],
      [nid |-> 11, symbolic |-> "On", value |-> 1]>>

\* The names a caller passes to set_entry_by_symbolic.
SymbolicNames == {"Off", "On", "Auto"}

\* .find(|ent| ent.symbolic() == name): the first entry with the name, if any
find_symbolic(entries, name) ==
    IF \E k \in 1..Len(entries) : entries[k].symbolic = name
    THEN LET first == CHOOSE k \in 1..Len(entries) :
                         /\ entries[k].symbolic = name
                         /\ \A j \in 1..(k - 1) : entries[j].symbolic # name
         IN  Some(entries[first])
    ELSE None

\* .any(|ent| ent.value() == value)
any_value(entries, v) == \E k \in 1..Len(entries) : entries[k].value = v

\* Mutation: the last entry is returned whatever the value is.
current_entry_last(entries, v) == Some(entries[Len(entries)].nid)

\* current_entry: the first entry whose value is the current value, if any
current_entry(entries, v) ==
    IF any_value(entries, v)
    THEN LET first == CHOOSE k \in 1..Len(entries) :
                         /\ entries[k].value = v
                         /\ \A j \in 1..(k - 1) : entries[j].value # v
         IN  Some(entries[first].nid)
    ELSE None

\* self.value.value(..) for an immediate: the integer in the value store
current_value(vs, n) == integer_value(vs, value_id(n))

\* What an access query of the element base or of the value source answers.
AccessAnswers == {"true", "false", "Err"}

\* Mutation: one of the two being accessible is enough.
access_or(elem, source) ==
    IF elem = "Err"
    THEN "Err"
    ELSE IF elem = "true" THEN "true" ELSE source

\* Ok(self.elem_base.is_readable(..)? && self.value.is_readable(..)?)
access_and(elem, source) ==
    IF elem = "Err"
    THEN "Err"
    ELSE IF elem = "false" THEN "false" ELSE source

EnumFrame == UNCHANGED <<emulator, invalidators, sink, offered, ids, id_arms, node_vars, codec, payload>>

\* set_entry_by_symbolic: the value of the entry found, then set_entry_by_value
EnumerationSetEntryBySymbolic ==
    \E n \in EnumerationNodes : \E name \in SymbolicNames :
        /\ IF find_symbolic(EnumEntries, name) = None
           THEN /\ Called([NoCall EXCEPT !.op = "set_entry_by_symbolic", !.nid = n,
                                         !.name = name, !.result = "InvalidData"])
                /\ UNCHANGED <<cache_store, values>>
           ELSE LET v == find_symbolic(EnumEntries, name)[1].value
                IN  IF ~any_value(EnumEntries, v)
                    THEN /\ Called([NoCall EXCEPT !.op = "set_entry_by_symbolic",
                                                  !.nid = n, !.name = name,
                                                  !.result = "InvalidData"])
                         /\ UNCHANGED <<cache_store, values>>
                    ELSE /\ cache_store' = invalidate_by(cache_store, invalidators, n)
                         /\ IF has_immediate(values, n)
                            THEN /\ values' = update(values, value_id(n), Integer(v))
                                 /\ Called([NoCall EXCEPT
                                               !.op = "set_entry_by_symbolic",
                                               !.nid = n, !.name = name,
                                               !.value = Some(v), !.gone = Gone])
                            ELSE \E wr \in WriteResults :
                                     /\ values' = values
                                     /\ Called([NoCall EXCEPT
                                                   !.op = "set_entry_by_symbolic",
                                                   !.nid = n, !.name = name,
                                                   !.value = Some(v), !.result = wr,
                                                   !.gone = Gone])
        /\ EnumFrame

EnumerationCurrentValue ==
    \E n \in EnumerationNodes :
        /\ Called([NoCall EXCEPT !.op = "current_value", !.nid = n,
                                 !.ret = current_value(values, n)])
        /\ UNCHANGED <<cache_store, values>>
        /\ EnumFrame

\* An immediate always reads; no entry with that value is an InvalidNode error.
EnumerationCurrentEntry ==
    \E n \in EnumerationNodes :
        /\ Called([NoCall EXCEPT
                      !.op = "current_entry", !.nid = n,
                      !.ret = current_entry(EnumEntries, current_value(values, n)[1]),
                      !.result = IF current_entry(EnumEntries,
                                                  current_value(values, n)[1]) = None
                                 THEN "InvalidNode" ELSE "Ok"])
        /\ UNCHANGED <<cache_store, values>>
        /\ EnumFrame

\* is_readable and is_writable of IntegerNode and EnumerationNode
IsAccessible ==
    \E n \in IntegerNodes \cup EnumerationNodes :
      \E op \in {"is_readable", "is_writable"} :
        \E elem \in AccessAnswers : \E source \in AccessAnswers :
            /\ Called([NoCall EXCEPT !.op = op, !.nid = n, !.elem = elem,
                                     !.source = source,
                                     !.result = access_and(elem, source)])
            /\ UNCHANGED <<cache_store, values>>
            /\ EnumFrame

\* Node 1 invalidates node 2, which holds one cached range.
InitEnum ==
    /\ InitEmulator
    /\ cache_store = cache(EmptyMap, 2, 0, 1, <<17>>)
    /\ invalidators = store_invalidator(EmptyMap, 1, 2)
    /\ sink = CacheSink
    /\ values = <<Integer(0), Integer(0)>>
    /\ offered = {}
    /\ ids = <<0, 1>>
    /\ id_arms = <<"Integer", "Integer">>
    /\ interner = <<>>
    /\ nodes = <<>>
    /\ fresh_id = 0
    /\ codec = NoCodec
    /\ payload = NoPayload
    /\ call = NoCall
    /\ calls = 0

NextEnum ==
    \/ EnumerationSetEntryByValue
    \/ EnumerationSetEntryBySymbolic
    \/ EnumerationCurrentValue
    \/ EnumerationCurrentEntry
    \/ IsAccessible

SpecEnum == InitEnum /\ [][NextEnum]_vars

(***************************************************************************)
(* The integer conversions of utils.rs.  An i64 is held as its eight bytes *)
(* in two's complement, least significant byte first, so that the casts    *)
(* and the byte orders act on the bits the code acts on.                   *)
(***************************************************************************)

\* The bytes a value or a buffer is made of: no bit set, only the top bit set,
\* every bit set.
ByteDomain == {0, 128, 255}

\* The byte a caller's buffer holds before bytes_from_int writes to it.
FillByte == 170

\* The i64 values given to bytes_from_int.
I64Values == [1..8 -> ByteDomain]

\* The lengths of the buffers: the four the conversions accept and two they
\* do not.
BufferLengths == {0, 1, 2, 3, 4, 8}

\* Lengths that take a three-byte buffer as well.
IntLengthsWithThree == {1, 2, 3, 4, 8}

\* The lengths the macros of int_from_slice and bytes_from_int match.
IntLengths == {1, 2, 4, 8}

Endiannesses == {"LE", "BE"}

Signs == {"Signed", "Unsigned"}

Reverse(s) == [k \in 1..Len(s) |-> s[Len(s) + 1 - k]]

\* A cast that keeps the high-order len bytes of the i64.
cast_to_width_high(v, len) == [k \in 1..len |-> v[8 - len + k]]

\* value as iN / value as uN: the low-order len bytes of the i64.
cast_to_width(v, len) == [k \in 1..len |-> v[k]]

to_le_bytes(x) == x

\* A big-endian writer that leaves the bytes in little-endian order.
to_be_bytes_unreversed(x) == x

to_be_bytes(x) == Reverse(x)

from_le_bytes(slice) == slice

from_be_bytes(slice) == Reverse(slice)

\* A widening of a signed integer that fills the upper bytes with zero.
sign_extend_as_unsigned(x) == [k \in 1..8 |-> IF k <= Len(x) THEN x[k] ELSE 0]

\* i64::from(iN): the upper bytes repeat the sign bit.
sign_extend(x) ==
    [k \in 1..8 |-> IF k <= Len(x) THEN x[k]
                    ELSE IF x[Len(x)] >= 128 THEN 255 ELSE 0]

\* uN as i64: the upper bytes are zero; a u64 keeps its eight bytes.
zero_extend(x) == [k \in 1..8 |-> IF k <= Len(x) THEN x[k] ELSE 0]

\* bytes_from_int: the result and the buffer afterwards.
bytes_from_int(v, buf, endianness, sign) ==
    IF Len(buf) \in IntLengths
    THEN [result |-> "Ok",
          buf |-> IF endianness = "LE"
                  THEN to_le_bytes(cast_to_width(v, Len(buf)))
                  ELSE to_be_bytes(cast_to_width(v, Len(buf)))]
    ELSE [result |-> "InvalidBuffer", buf |-> buf]

\* int_from_slice: the result and the i64 of an Ok.
int_from_slice(slice, endianness, sign) ==
    IF Len(slice) \in IntLengths
    THEN LET x == IF endianness = "LE" THEN from_le_bytes(slice)
                  ELSE from_be_bytes(slice)
         IN  [result |-> "Ok",
              value |-> Some(IF sign = "Signed" THEN sign_extend(x)
                             ELSE zero_extend(x))]
    ELSE [result |-> "InvalidBuffer", value |-> None]

\* One conversion: a caller's value, buffer, byte order and sign.
CodecInputs ==
    {[phase |-> "input", value |-> v, endianness |-> e, sign |-> s,
      buf |-> [k \in 1..l |-> FillByte], written |-> "", read |-> "",
      decoded |-> None] :
        v \in I64Values, e \in Endiannesses, s \in Signs, l \in BufferLengths}

\* The caller writes its value into its buffer.
BytesFromInt ==
    /\ codec.phase = "input"
    /\ LET r == bytes_from_int(codec.value, codec.buf, codec.endianness, codec.sign)
       IN  codec' = [codec EXCEPT !.phase = "written", !.buf = r.buf,
                                  !.written = r.result]
    /\ UNCHANGED <<emulator, cache_store, invalidators, sink, values, offered, ids,
                   id_arms, node_vars, payload, call, calls>>

\* The caller reads the buffer back with the same byte order and sign.
IntFromSlice ==
    /\ codec.phase = "written"
    /\ LET r == int_from_slice(codec.buf, codec.endianness, codec.sign)
       IN  codec' = [codec EXCEPT !.phase = "read", !.read = r.result,
                                  !.decoded = r.value]
    /\ UNCHANGED <<emulator, cache_store, invalidators, sink, values, offered, ids,
                   id_arms, node_vars, payload, call, calls>>

\* The lengths float_from_slice and bytes_from_float match.
FloatLengths == {4, 8}

\* IEEE 754 values, least significant byte first: .f64 the value, .f32 the
\* value as f32, .widened whether f64::from of that f32 is the value.
\* 0.0, 1024.0, -2.0, 0.1 and the f64 of 0.1f32.
FloatTable ==
    <<[f64 |-> <<0, 0, 0, 0, 0, 0, 0, 0>>, f32 |-> <<0, 0, 0, 0>>, widened |-> TRUE],
      [f64 |-> <<0, 0, 0, 0, 0, 0, 144, 64>>, f32 |-> <<0, 0, 128, 68>>, widened |-> TRUE],
      [f64 |-> <<0, 0, 0, 0, 0, 0, 0, 192>>, f32 |-> <<0, 0, 0, 192>>, widened |-> TRUE],
      [f64 |-> <<154, 153, 153, 153, 153, 153, 185, 63>>, f32 |-> <<205, 204, 204, 61>>,
       widened |-> FALSE],
      [f64 |-> <<0, 0, 0, 160, 153, 153, 185, 63>>, f32 |-> <<205, 204, 204, 61>>,
       widened |-> TRUE]>>

\* The f64 values given to bytes_from_float.
F64Values == {FloatTable[r].f64 : r \in DOMAIN FloatTable}

\* value as f32: the nearest f32.
f64_as_f32(v) == FloatTable[CHOOSE r \in DOMAIN FloatTable : FloatTable[r].f64 = v].f32

\* f64::from(f32): the f64 of the same value.
f64_from_f32(x) ==
    FloatTable[CHOOSE r \in DOMAIN FloatTable :
                 FloatTable[r].f32 = x /\ FloatTable[r].widened].f64

\* bytes_from_float: the result and the buffer afterwards.
bytes_from_float(v, buf, endianness) ==
    IF Len(buf) \in FloatLengths
    THEN LET x == IF Len(buf) = 8 THEN v ELSE f64_as_f32(v)
         IN  [result |-> "Ok",
              buf |-> IF endianness = "LE" THEN to_le_bytes(x) ELSE to_be_bytes(x)]
    ELSE [result |-> "InvalidBuffer", buf |-> buf]

\* float_from_slice: the result and the f64 of an Ok.
float_from_slice(slice, endianness) ==
    IF Len(slice) \in FloatLengths
    THEN LET x == IF endianness = "LE" THEN from_le_bytes(slice)
                  ELSE from_be_bytes(slice)
         IN  [result |-> "Ok",
              value |-> Some(IF Len(slice) = 8 THEN x ELSE f64_from_f32(x))]
    ELSE [result |-> "InvalidBuffer", value |-> None]

\* One conversion of a float: a caller's value, buffer and byte order.
FloatInputs ==
    {[phase |-> "float_input", value |-> v, endianness |-> e, sign |-> "Signed",
      buf |-> [k \in 1..l |-> FillByte], written |-> "", read |-> "",
      decoded |-> None] :
        v \in F64Values, e \in Endiannesses, l \in BufferLengths}

\* The caller writes its float into its buffer.
BytesFromFloat ==
    /\ codec.phase = "float_input"
    /\ LET r == bytes_from_float(codec.value, codec.buf, codec.endianness)
       IN  codec' = [codec EXCEPT !.phase = "float_written", !.buf = r.buf,
                                  !.written = r.result]
    /\ UNCHANGED <<emulator, cache_store, invalidators, sink, values, offered, ids,
                   id_arms, node_vars, payload, call, calls>>

\* The caller reads the buffer back with the same byte order.
FloatFromSlice ==
    /\ codec.phase = "float_written"
    /\ LET r == float_from_slice(codec.buf, codec.endianness)
       IN  codec' = [codec EXCEPT !.phase = "float_read", !.read = r.result,
                                  !.decoded = r.value]
    /\ UNCHANGED <<emulator, cache_store, invalidators, sink, values, offered, ids,
                   id_arms, node_vars, payload, call, calls>>

InitCodec ==
    /\ InitEmulator
    /\ cache_store = EmptyMap
    /\ invalidators = EmptyMap
    /\ sink = CacheSink
    /\ values = <<>>
    /\ offered = {}
    /\ ids = <<>>
    /\ id_arms = <<>>
    /\ interner = <<>>
    /\ nodes = <<>>
    /\ fresh_id = 0
    /\ codec \in CodecInputs \cup FloatInputs
    /\ payload = NoPayload
    /\ call = NoCall
    /\ calls = 0

NextCodec ==
    \/ BytesFromInt
    \/ IntFromSlice
    \/ BytesFromFloat
    \/ FloatFromSlice

SpecCodec == InitCodec /\ [][NextCodec]_vars


(***************************************************************************)
(* The payload size of SiControlHandler::verify_size at its machine width. *)
(* A u32 is held as its four bytes and a u64 as its eight bytes, least     *)
(* significant byte first; products and sums are first taken in sixteen    *)
(* bytes, where they are exact, and then cut to the accumulator.           *)
(***************************************************************************)
\* The u32 values of the payload registers: 0, 1, 2^16 - 1, 2^31 and 2^32 - 1.
U32Values ==
    {<<0, 0, 0, 0>>, <<1, 0, 0, 0>>, <<255, 255, 0, 0>>, <<0, 0, 0, 128>>,
     <<255, 255, 255, 255>>}

\* x as u64, and an integer at the width products are taken in.
widen(x, n) == [k \in 1..n |-> IF k <= Len(x) THEN x[k] ELSE 0]

\* The sum of the byte products a[i] * b[j] with i + j = k + 1, for i <= n.
RECURSIVE column(_, _, _, _)
column(a, b, k, n) ==
    IF n = 0 THEN 0
    ELSE (IF n <= Len(a) /\ (k + 1 - n) \in 1..Len(b) THEN a[n] * b[k + 1 - n] ELSE 0)
           + column(a, b, k, n - 1)

RECURSIVE mul_carry(_, _, _)
mul_carry(a, b, k) ==
    IF k = 0 THEN 0 ELSE (column(a, b, k, k) + mul_carry(a, b, k - 1)) \div 256

\* a * b in sixteen bytes.
wide_mul(a, b) ==
    [k \in 1..16 |-> (column(a, b, k, k) + mul_carry(a, b, k - 1)) % 256]

RECURSIVE add_carry(_, _, _)
add_carry(a, b, k) ==
    IF k = 0 THEN 0 ELSE (a[k] + b[k] + add_carry(a, b, k - 1)) \div 256

\* a + b in sixteen bytes.
wide_add(a, b) ==
    [k \in 1..16 |-> (a[k] + b[k] + add_carry(a, b, k - 1)) % 256]

\* An accumulator of four bytes.
as_u32(wide) ==
    [value |-> [k \in 1..8 |-> IF k <= 4 THEN wide[k] ELSE 0],
     overflow |-> \E k \in 5..16 : wide[k] # 0]

\* The u64 an operation leaves, and whether the exact result did not fit
\* (a panic in a build with overflow checks, a wrap-around without).
as_u64(wide) ==
    [value |-> [k \in 1..8 |-> wide[k]],
     overflow |-> \E k \in 9..16 : wide[k] # 0]

u64_mul(a, b) == as_u64(wide_mul(widen(a, 16), widen(b, 16)))

u64_add(a, b) == as_u64(wide_add(widen(a, 16), widen(b, 16)))

\* specified_payload_size: the accumulator after the product and the two
\* sums, and whether one of the three operations overflowed.
specified_payload_size_u64(size, count, final1, final2) ==
    LET product == u64_mul(widen(size, 8), widen(count, 8))
        sum1    == u64_add(product.value, widen(final1, 8))
        sum2    == u64_add(sum1.value, widen(final2, 8))
    IN  [value |-> sum2.value,
         overflow |-> product.overflow \/ sum1.overflow \/ sum2.overflow]

\* The registers verify_size reads for the payload size.
PayloadInputs ==
    {[phase |-> "read", size |-> s, count |-> c, final1 |-> f1, final2 |-> f2,
      value |-> widen(<<>>, 8), overflow |-> FALSE] :
        s \in U32Values, c \in U32Values, f1 \in U32Values, f2 \in U32Values}

\* let specified_payload_size = .. as u64 * .. as u64 + .. as u64 + .. as u64;
SpecifiedPayloadSize ==
    /\ payload.phase = "read"
    /\ LET r == specified_payload_size_u64(payload.size, payload.count,
                                           payload.final1, payload.final2)
       IN  payload' = [payload EXCEPT !.phase = "computed", !.value = r.value,
                                      !.overflow = r.overflow]
    /\ UNCHANGED <<emulator, cache_store, invalidators, sink, values, offered, ids,
                   id_arms, node_vars, codec, call, calls>>

InitPayload ==
    /\ InitEmulator
    /\ cache_store = EmptyMap
    /\ invalidators = EmptyMap
    /\ sink = CacheSink
    /\ values = <<>>
    /\ offered = {}
    /\ ids = <<>>
    /\ id_arms = <<>>
    /\ interner = <<>>
    /\ nodes = <<>>
    /\ fresh_id = 0
    /\ codec = NoCodec
    /\ payload \in PayloadInputs
    /\ call = NoCall
    /\ calls = 0

NextPayload == SpecifiedPayloadSize

SpecPayload == InitPayload /\ [][NextPayload]_vars


(***************************************************************************)
(* Vocabulary of the properties of the stores.                             *)
(***************************************************************************)
\* The nodes registered as targets of invalidator n.
Targets(n) == IF n \in DOMAIN invalidators THEN Range(invalidators[n]) ELSE {}

\* The step is a call of op on a store.
CallOf(op) == calls' = calls + 1 /\ call'.op = op

\* The step is a call that invalidates the caches of node m.
Invalidates(m) ==
    \/ CallOf("clear")
    \/ CallOf("invalidate_of") /\ call'.nid = m
    \/ /\ CallOf("invalidate_by") \/ CallOf("set_value") \/ CallOf("set_entry_by_value")
       /\ m \in Targets(call'.nid)

(***************************************************************************)
(* C16: after IntegerNode::set_value on node N, and after                  *)
(* EnumerationNode::set_entry_by_value on N with a value of one of its     *)
(* entries, get_cache(M, a, l) is None for every address a, length l and   *)
(* every node M registered with store_invalidator(N, M).                   *)
(***************************************************************************)
SetValueInvalidatesTargets ==
    [][(/\ CallOf("set_value") \/ CallOf("set_entry_by_value")
        /\ call'.result = "Ok")
       => \A M \in Targets(call'.nid) : \A a \in Addresses : \A l \in Lengths :
              get_cache(cache_store', M, a, l) = None]_vars

\* Scenario: node 0 invalidates a node that holds cached bytes; 0 is set.
SetValueInvalidatesWitness ==
    /\ call.op = "set_value"
    /\ Targets(call.nid) # {}
    /\ call.gone > 0

(***************************************************************************)
(* C17: in the DefaultCacheStore, after cache(nid, addr, len, bytes),      *)
(* get_cache(nid, addr, len) returns exactly bytes until that node is      *)
(* invalidated, the store is cleared or the same key is cached again, and  *)
(* then the newer bytes replace the older; get_cache returns None for a    *)
(* key never cached, also when it differs from a cached key only in the    *)
(* address or only in the length.  Stated step by step: no key is cached   *)
(* at first; what get_cache returns for a key becomes Some(bytes) only by  *)
(* cache of exactly this key with these bytes, and becomes None only by a  *)
(* call that invalidates its node or clears the store.                     *)
(***************************************************************************)
CacheReturnsWhatWasCached ==
    [][\A k \in Keys :
         LET before == get_cache(cache_store, k[1], k[2], k[3])
             after == get_cache(cache_store', k[1], k[2], k[3])
             SameKey == CallOf("cache")
                        /\ <<call'.nid, call'.address, call'.length>> = k
         IN  /\ SameKey => after = Some(call'.data)
             /\ (after # before /\ after # None) => SameKey
             /\ (after # before /\ after = None) => Invalidates(k[1])
             /\ calls = 0 => before = None]_vars

\* Scenario: a cached key is cached again with other bytes, while the key with the
\* other address and the key with the other length were never cached.
CacheReplacedWitness ==
    /\ call.op = "cache"
    /\ call.replaced = 1
    /\ get_cache(cache_store, call.nid, call.address, call.length) = Some(call.data)
    /\ \E a \in Addresses \ {call.address} :
          get_cache(cache_store, call.nid, a, call.length) = None
    /\ \E l \in Lengths \ {call.length} :
          get_cache(cache_store, call.nid, call.address, l) = None
    /\ calls = 2

(***************************************************************************)
(* C18: invalidate_of(nid) removes every cached (address, length) entry of *)
(* node nid and leaves the cached entries of every other node as they      *)
(* were; on a node with no cached entries it changes nothing.              *)
(***************************************************************************)
InvalidateOfOnlyThatNode ==
    [][CallOf("invalidate_of")
       => /\ \A a \in Addresses : \A l \in Lengths :
                get_cache(cache_store', call'.nid, a, l) = None
          /\ \A m \in NodeIds \ {call'.nid} : \A a \in Addresses : \A l \in Lengths :
                get_cache(cache_store', m, a, l) = get_cache(cache_store, m, a, l)
          /\ (\A a \in Addresses : \A l \in Lengths :
                 get_cache(cache_store, call'.nid, a, l) = None)
                => cache_store' = cache_store
          /\ invalidators' = invalidators]_vars

\* Scenario: two nodes hold cached bytes and one of them is invalidated.
InvalidateOfWitness ==
    /\ call.op = "invalidate_of"
    /\ call.gone > 0
    /\ \E k \in Entries(cache_store) : k[1] # call.nid

(***************************************************************************)
(* C19: for the CacheSink, get_cache returns None for every key after any  *)
(* sequence of cache, invalidate_by, invalidate_of, clear and              *)
(* store_invalidator calls.                                                *)
(***************************************************************************)
SinkAlwaysNone ==
    /\ \A k \in Keys : CacheSink_get_cache(sink, k[1], k[2], k[3]) = None
    /\ call.op = "get_cache" => call.ret = None

\* Scenario: get_cache is asked for a key the sink was asked to cache before.
SinkAskedWitness ==
    /\ call.op = "get_cache"
    /\ <<call.nid, call.address, call.length>> \in offered
    /\ calls = MaxCalls

(***************************************************************************)
(* C20: DefaultValueStore::store is append-only: the id it returns is the  *)
(* number of values stored before the call, so the k-th stored value gets  *)
(* id k-1, ids are never reused, and storing a value never changes the     *)
(* value read through an earlier id.                                       *)
(***************************************************************************)
StoreAppendOnly ==
    [][CallOf("store")
       => /\ call'.id = Len(values)
          /\ Len(values') = Len(values) + 1
          /\ value_opt(values', call'.id) = call'.value
          /\ \A id \in 0..(Len(values) - 1) :
                value_opt(values', id) = value_opt(values, id)
          /\ \A k \in 1..Len(ids') : ids'[k] = k - 1]_vars

\* Scenario: three values are stored, with one other call among the stores.
StoreThirdWitness ==
    /\ call.op = "store"
    /\ call.id = 2
    /\ Len(values) = 3
    /\ values[1] # values[2]
    /\ calls = MaxCalls

(***************************************************************************)
(* C21: DefaultValueStore::update(id, v) on an id below the store length   *)
(* replaces only that slot, returns the value previously held there, and   *)
(* leaves the length and every other slot unchanged; on an id at or beyond *)
(* the length it returns None and changes nothing, and value_opt returns   *)
(* None for exactly those ids.                                             *)
(***************************************************************************)
UpdateReplacesOneSlot ==
    [][CallOf("update")
       => /\ IF call'.id < Len(values)
             THEN /\ call'.ret = Some(values[call'.id + 1])
                  /\ value_opt(values', call'.id) = call'.value
                  /\ Len(values') = Len(values)
                  /\ \A id \in 0..(Len(values) - 1) :
                        id # call'.id => value_opt(values', id) = value_opt(values, id)
             ELSE /\ call'.ret = None
                  /\ values' = values
          /\ \A id \in 0..(MaxCalls + 1) :
                value_opt(values', id) = None <=> id >= Len(values')]_vars

\* Scenario: of two stored values the second is replaced by a value of another arm.
UpdateInRangeWitness ==
    /\ call.op = "update"
    /\ Len(values) = 2
    /\ call.id = 1
    /\ call.ret # None
    /\ call.ret[1].arm # call.value[1].arm

(***************************************************************************)
(* C22: a read through a typed id returns a value only when the slot       *)
(* currently holds the matching arm: integer_value, float_value and        *)
(* str_value return None when the slot holds another arm (also after       *)
(* update put a value of another type there) or when the id is out of      *)
(* range, and return the payload of the slot, never a converted one,       *)
(* otherwise.                                                              *)
(***************************************************************************)
TypedRead(op, arm) ==
    CallOf(op)
    => IF call'.id < Len(values) /\ values[call'.id + 1].arm = arm
       THEN /\ call'.ret # None
            /\ arm = "Integer" => call'.ret = Some(values[call'.id + 1].i)
            /\ arm = "Float" => call'.ret = Some(values[call'.id + 1].f)
            /\ arm = "Str" => call'.ret = Some(values[call'.id + 1].s)
       ELSE call'.ret = None

TypedReadsMatchArm ==
    [][/\ TypedRead("integer_value", "Integer")
       /\ TypedRead("float_value", "Float")
       /\ TypedRead("str_value", "Str")
       /\ (CallOf("integer_value") \/ CallOf("float_value") \/ CallOf("str_value"))
             => values' = values]_vars

\* Scenario: an id stored as an integer is updated with a float and then read as
\* an integer.
TypedMismatchWitness ==
    /\ call.op = "integer_value"
    /\ call.id < Len(values)
    /\ id_arms[call.id + 1] = "Integer"
    /\ values[call.id + 1].arm = "Float"
    /\ call.ret = None

(***************************************************************************)
(* C23: for every NodeId handed out by the DefaultNodeStore, node_opt(id)  *)
(* is not None after any sequence of get_or_intern and store_node calls,   *)
(* and the declared name of the stored node equals name_by_id(id).         *)
(***************************************************************************)
EveryHandedOutIdHasNode ==
    \A id \in HandedOut :
        /\ node_opt(nodes, id) # None
        /\ name_by_id(interner, node_opt(nodes, id)[1].id) = name_by_id(interner, id)

(***************************************************************************)
(* C24: interning is a bijection between names and ids: get_or_intern      *)
(* returns the same NodeId for the same name on every call, different      *)
(* names get different NodeIds, name_by_id(get_or_intern(n)) equals n, and *)
(* id_by_name(n) is None exactly for names never interned.  Stated step by *)
(* step: no name has an id at first, a name gets its id only by            *)
(* get_or_intern of that name, and an id once given never changes.         *)
(***************************************************************************)
InterningIsBijection ==
    [][/\ calls = 0 => \A s \in Names : id_by_name(interner, s) = None
       /\ \A s \in Names :
             /\ id_by_name(interner, s) # None
                   => id_by_name(interner', s) = id_by_name(interner, s)
             /\ id_by_name(interner', s) # id_by_name(interner, s)
                   => CallOf("get_or_intern") /\ call'.name = s
       /\ CallOf("get_or_intern")
             => /\ id_by_name(interner', call'.name) = Some(call'.id)
                /\ name_by_id(interner', call'.id) = Some(call'.name)
                /\ id_by_name(interner, call'.name) # None => interner' = interner
       /\ \A s \in Names : \A t \in Names \ {s} :
             id_by_name(interner', s) # None
                => id_by_name(interner', s) # id_by_name(interner', t)]_vars

\* Scenario: two names are interned and the first is interned again.
InternAgainWitness ==
    /\ call.op = "get_or_intern"
    /\ Len(interner) = 2
    /\ call.id = 0
    /\ calls = 3

(***************************************************************************)
(* C25: store_node(id, d) makes node_opt(id) return d, grows the backing   *)
(* sequence only with empty slots and leaves every other slot unchanged;   *)
(* once a slot holds a node, no later operation replaces it with a         *)
(* different node.                                                         *)
(***************************************************************************)
StoreNodeKeepsSlots ==
    [][/\ (CallOf("store_node") /\ call'.result = "Ok")
             => /\ node_opt(nodes', call'.nid) = call'.value
                /\ Len(nodes') >= Len(nodes)
                /\ \A id \in NodeIds :
                      id # call'.nid /\ id < Len(nodes)
                         => node_opt(nodes', id) = node_opt(nodes, id)
                /\ \A id \in NodeIds :
                      id # call'.nid /\ id >= Len(nodes) => node_opt(nodes', id) = None
       /\ \A id \in NodeIds :
             node_opt(nodes, id) # None => node_opt(nodes', id) = node_opt(nodes, id)]_vars

(***************************************************************************)
(* C26: DefaultNodeStore::fresh_id is a monotonic counter: the n-th call   *)
(* returns n-1, every call returns a value strictly greater than all       *)
(* earlier ones, and no other operation of the store changes the counter.  *)
(* Stated step by step: the counter is 0 at first, a call returns the      *)
(* counter and raises it by one, no other call touches it.                 *)
(***************************************************************************)
FreshIdMonotonic ==
    [][/\ calls = 0 => fresh_id = 0
       /\ CallOf("fresh_id") => call'.id = fresh_id /\ fresh_id' = fresh_id + 1
       /\ ~CallOf("fresh_id") => fresh_id' = fresh_id]_vars

\* Scenario: the second fresh id is taken after a name was interned and stored.
FreshIdWitness ==
    /\ call.op = "fresh_id"
    /\ call.id = 1
    /\ fresh_id = 2
    /\ nodes # <<>>
    /\ calls = MaxCalls

(***************************************************************************)
(* C27: for an enumeration whose entries have unique symbolic names and    *)
(* unique values, after set_entry_by_symbolic(name) succeeds for an        *)
(* existing name, current_entry returns the entry whose symbolic name is   *)
(* name and current_value returns the value of that entry.                 *)
(***************************************************************************)
SymbolicThenCurrent ==
    [][(CallOf("set_entry_by_symbolic") /\ call'.result = "Ok")
       => LET set == find_symbolic(EnumEntries, call'.name)[1]
          IN  /\ current_value(values', call'.nid) = Some(set.value)
              /\ current_entry(EnumEntries, current_value(values', call'.nid)[1])
                    = Some(set.nid)]_vars

\* Scenario: the second call sets the enumeration to Off by name.
SymbolicSetWitness ==
    /\ call.op = "set_entry_by_symbolic"
    /\ call.name = "Off"
    /\ call.result = "Ok"
    /\ current_value(values, call.nid) = Some(0)
    /\ calls = 2

(***************************************************************************)
(* C28: set_entry_by_value with a value that no entry carries, and         *)
(* set_entry_by_symbolic with a name that no entry carries, fail with      *)
(* InvalidData and leave everything unchanged: no cache entry is           *)
(* invalidated, no value is written, current_value is as before.           *)
(***************************************************************************)
InvalidEntryChangesNothing ==
    [][(\/ /\ CallOf("set_entry_by_value")
           /\ ~any_value(EnumEntries, call'.value[1])
        \/ /\ CallOf("set_entry_by_symbolic")
           /\ find_symbolic(EnumEntries, call'.name) = None)
       => /\ call'.result = "InvalidData"
          /\ cache_store' = cache_store
          /\ invalidators' = invalidators
          /\ values' = values
          /\ current_value(values', call'.nid) = current_value(values, call'.nid)]_vars

\* Scenario: a node the enumeration invalidates holds a cached range, and the
\* value 2 of no entry is rejected.
InvalidEntryWitness ==
    /\ call.op = "set_entry_by_value"
    /\ call.value = Some(2)
    /\ call.result = "InvalidData"
    /\ \E k \in Entries(cache_store) : k[1] \in Targets(call.nid)
    /\ calls = 1

(***************************************************************************)
(* C29: for IntegerNode and EnumerationNode, is_readable returns true only *)
(* if both the element base and the value source are readable, and         *)
(* is_writable returns true only if both are writable.                     *)
(***************************************************************************)
AccessIsConjunction ==
    [][(/\ CallOf("is_readable") \/ CallOf("is_writable")
        /\ call'.result = "true")
       => call'.elem = "true" /\ call'.source = "true"]_vars

\* Scenario: the element base is writable, the value source is not.
AccessDeniedWitness ==
    /\ call.op = "is_writable"
    /\ call.nid \in EnumerationNodes
    /\ call.elem = "true"
    /\ call.source = "false"
    /\ call.result = "false"

\* v fits in len bytes under sign: the bytes above len are what the extension
\* of the low len bytes gives, and an unsigned v is not negative.
Representable(v, len, sign) ==
    IF sign = "Signed"
    THEN sign_extend(cast_to_width(v, len)) = v
    ELSE zero_extend(cast_to_width(v, len)) = v /\ v[8] < 128

I64(n) ==
    [k \in 1..8 |-> IF k <= 3 THEN (n \div (256 ^ (k - 1))) % 256
                    ELSE IF n < 0 THEN 255 ELSE 0]

\* The k-th byte of the slice counted from the least significant one.
SliceByte(k) ==
    IF codec.endianness = "LE" THEN codec.buf[k] ELSE codec.buf[Len(codec.buf) + 1 - k]

(***************************************************************************)
(* C31: int_from_slice decodes a slice of 1, 2 or 4 bytes by               *)
(* sign-extending it when the sign is Signed and zero-extending it when    *)
(* the sign is Unsigned (one byte 0xFF is -1 signed and 255 unsigned), and *)
(* decodes an 8-byte Unsigned slice above i64::MAX to the negative i64     *)
(* with the same bit pattern, under both endiannesses.                     *)
(***************************************************************************)
IntFromSliceExtends ==
    (codec.phase = "read" /\ Len(codec.buf) \in IntLengths)
    => /\ codec.read = "Ok"
       /\ codec.decoded # None
       /\ LET d == codec.decoded[1]
              len == Len(codec.buf)
          IN  /\ \A k \in 1..len : d[k] = SliceByte(k)
              /\ \A k \in (len + 1)..8 :
                    d[k] = IF codec.sign = "Signed" /\ SliceByte(len) >= 128
                           THEN 255 ELSE 0
              /\ (len = 8 /\ codec.sign = "Unsigned" /\ SliceByte(8) >= 128)
                    => d[8] >= 128
              /\ codec.buf = <<255>>
                    => d = IF codec.sign = "Signed" THEN I64(-1) ELSE I64(255)

\* Scenario: the byte 0xFF read as a signed integer is -1.
IntFromSliceWitness ==
    /\ codec.phase = "read"
    /\ codec.buf = <<255>>
    /\ codec.sign = "Signed"
    /\ codec.decoded = Some(I64(-1))

(***************************************************************************)
(* C32: bytes_from_int with a buffer narrower than 8 bytes writes every    *)
(* byte of the buffer with the low-order bytes of the value (wrap-around   *)
(* modulo 2^(8*width)) and returns Ok for every i64 value; no value is     *)
(* rejected for being out of range.                                        *)
(***************************************************************************)
BytesFromIntTruncates ==
    (/\ codec.phase \in {"written", "read"}
     /\ Len(codec.buf) \in IntLengths \ {8})
    => /\ codec.written = "Ok"
       /\ \A k \in 1..Len(codec.buf) : SliceByte(k) = codec.value[k]

\* Scenario: a value that does not fit in two bytes, signed or unsigned, is
\* written into a two-byte buffer.
BytesFromIntWitness ==
    /\ codec.phase = "written"
    /\ Len(codec.buf) = 2
    /\ codec.value[3] = 128
    /\ codec.value[8] = 0
    /\ codec.written = "Ok"
    /\ codec.buf # <<FillByte, FillByte>>


\* The caller's buffer is as it was before the call.
BufferUntouched == \A k \in 1..Len(codec.buf) : codec.buf[k] = FillByte

(***************************************************************************)
(* C33: each codec function fails with InvalidBuffer exactly when the      *)
(* buffer length is outside its allowed set ({1,2,4,8} for int_from_slice  *)
(* and bytes_from_int, {4,8} for float_from_slice and bytes_from_float, so *)
(* an empty buffer fails), succeeds for every allowed length under both    *)
(* endiannesses, and on failure leaves the output buffer unmodified.       *)
(***************************************************************************)
InvalidBufferExactly ==
    /\ codec.phase \in {"written", "read"}
         => /\ codec.written = (IF Len(codec.buf) \in {1, 2, 4, 8} THEN "Ok"
                                ELSE "InvalidBuffer")
            /\ codec.written = "InvalidBuffer" => BufferUntouched
    /\ codec.phase = "read"
         => codec.read = (IF Len(codec.buf) \in {1, 2, 4, 8} THEN "Ok"
                          ELSE "InvalidBuffer")
    /\ codec.phase \in {"float_written", "float_read"}
         => /\ codec.written = (IF Len(codec.buf) \in {4, 8} THEN "Ok"
                                ELSE "InvalidBuffer")
            /\ codec.written = "InvalidBuffer" => BufferUntouched
    /\ codec.phase = "float_read"
         => codec.read = (IF Len(codec.buf) \in {4, 8} THEN "Ok"
                          ELSE "InvalidBuffer")

\* Scenario: 1024.0 is written little-endian into a two-byte buffer, which an
\* integer would fit, and read back.
InvalidBufferWitness ==
    /\ codec.phase = "float_read"
    /\ codec.value = <<0, 0, 0, 0, 0, 0, 144, 64>>
    /\ codec.endianness = "LE"
    /\ codec.buf = <<FillByte, FillByte>>
    /\ codec.written = "InvalidBuffer"
    /\ codec.read = "InvalidBuffer"


(***************************************************************************)
(* The host finishes its register writes before handle_events is called    *)
(* for the first time: every event of the first drain was queued before    *)
(* the drain began.                                                        *)
(***************************************************************************)
HostWriteBeforeDrain ==
    /\ pc = "idle"
    /\ ret = "none"
    /\ HostWrite

NextWrittenBeforeDrain ==
    \/ HostWriteBeforeDrain
    \/ HandleEvents
    \/ Process
    \/ Return
    \/ TimestampLatchLock
    \/ TimestampLatchRead
    \/ TimestampLatchWrite
    \/ TimestampLatchDrop
    \/ TimestampLatchSignal
    \/ SiControlRead
    \/ VerifyAlignment
    \/ VerifySize
    \/ WriteBack
    \/ SendEnable
    \/ SendDisable
    \/ StreamCompletes
    \/ StreamDrops
    \/ AwaitCompleted

SpecWrittenBeforeDrain == Init /\ [][NextWrittenBeforeDrain]_vars

\* One watched register was written twice before the drain, and the drain has
\* handled both events.
WrittenTwiceAndDrained(reg) ==
    /\ pc = "idle"
    /\ ret # "none"
    /\ written = <<reg, reg>>
    /\ Len(log) = 2

DisableWaitsWithoutLock ==
    pc \in {"disable_sirm", "completed_rx"} => lock = "free"

\* Scenario: Disable was delivered and the handler waits for the stream module.
DisableWaitsWitness ==
    /\ pc = "completed_rx"
    /\ completed = "pending"
    /\ value = 0
    /\ sigs = <<Disable>>
    /\ lock = "free"

(***************************************************************************)
(* The worker's task is polled again once the oneshot receiver is ready:   *)
(* an await that can complete does complete.                               *)
(***************************************************************************)
SpecFair == Spec /\ WF_vars(AwaitCompleted)

\* The disable event the worker was handling has ended with Ok.
DisableEndedOk ==
    /\ log # <<>>
    /\ Last(log).event = "SiControl"
    /\ Last(log).value = 0
    /\ Last(log).result = Ok

(***************************************************************************)
(* C36: processing a disable event eventually finishes and yields Ok       *)
(* whenever the completion sender is either completed or dropped; a        *)
(* dropped completion is treated as completion, and the disable path never *)
(* returns an error once SIRM::Control was read as 0.                      *)
(***************************************************************************)
DisableFinishesOk ==
    /\ \A c \in {"completed", "dropped"} :
          (pc = "completed_rx" /\ completed = c) ~> (pc = "loop" /\ DisableEndedOk)
    /\ [][(pc \in {"disable_sirm", "completed_rx"} /\ EventHandled)
            => /\ Last(log').result = Ok
               /\ error_ack' = error_ack]_vars

\* Scenario: Disable could not be delivered and the sender was dropped with it
\* while the handler waits on the receiver.
DisableDroppedWitness ==
    /\ pc = "completed_rx"
    /\ completed = "dropped"
    /\ value = 0
    /\ sigs = <<Disable>>
    /\ error_ack = Ok


\* The mathematical value size * count + final1 + final2, in sixteen bytes.
ExactPayloadSize ==
    wide_add(wide_add(wide_mul(widen(payload.size, 16), widen(payload.count, 16)),
                      widen(payload.final1, 16)),
             widen(payload.final2, 16))

(***************************************************************************)
(* C37: the specified payload size PayloadTransferSize *                   *)
(* PayloadTransferCount + PayloadFinalTransferSize1 +                      *)
(* PayloadFinalTransferSize2 computed in verify_size never overflows its   *)
(* 64-bit unsigned accumulator for any 32-bit unsigned values of the four  *)
(* registers: the accumulator holds the exact mathematical sum.            *)
(***************************************************************************)
PayloadSizeNeverOverflows ==
    payload.phase = "computed"
    => /\ ~payload.overflow
       /\ widen(payload.value, 16) = ExactPayloadSize

\* Scenario: the four registers hold 2^32 - 1 and the sum is 2^64 - 1.
PayloadSizeWitness ==
    /\ payload.phase = "computed"
    /\ payload.size = <<255, 255, 255, 255>>
    /\ payload.count = <<255, 255, 255, 255>>
    /\ payload.final1 = <<255, 255, 255, 255>>
    /\ payload.final2 = <<255, 255, 255, 255>>
    /\ payload.value = <<255, 255, 255, 255, 255, 255, 255, 255>>


\* The step is a write through node n that its value source refused.
WriteFailed ==
    /\ CallOf("set_value") \/ CallOf("set_entry_by_value")
    /\ call'.result \notin {"Ok", "InvalidData"}

(***************************************************************************)
(* C38: IntegerNode.set_value and EnumerationNode.set_entry_by_value       *)
(* invalidate the caches of the dependent nodes before they perform the    *)
(* write, and the invalidation is not undone when the write then fails:    *)
(* after a failed set_value on N, get_cache is None for every node         *)
(* registered as invalidated by N.                                         *)
(***************************************************************************)
FailedWriteStillInvalidates ==
    [][WriteFailed
       => /\ values' = values
          /\ \A M \in Targets(call'.nid) : \A a \in Addresses : \A l \in Lengths :
                get_cache(cache_store', M, a, l) = None]_vars

\* Scenario: node 0 invalidates node 2, which holds cached bytes, and the
\* write through node 0 is refused.
FailedWriteWitness ==
    /\ call.op = "set_value"
    /\ call.nid = 0
    /\ call.result = "NotWritable"
    /\ 2 \in Targets(0)
    /\ call.gone > 0
    /\ get_cache(cache_store, 2, 0, 1) = None


(***************************************************************************)
(* C39: invalidate_by(nid) clears only the caches of the nodes listed      *)
(* under nid in the invalidator map: the cached entries of nid itself      *)
(* (unless it is listed as its own target) and of every unlisted node are  *)
(* unchanged, and when nid has no registered targets the call changes      *)
(* nothing.                                                                *)
(***************************************************************************)
InvalidateByOnlyTargets ==
    [][CallOf("invalidate_by")
       => /\ \A m \in Targets(call'.nid) : \A a \in Addresses : \A l \in Lengths :
                get_cache(cache_store', m, a, l) = None
          /\ \A m \in NodeIds \ Targets(call'.nid) :
                \A a \in Addresses : \A l \in Lengths :
                    get_cache(cache_store', m, a, l) = get_cache(cache_store, m, a, l)
          /\ Targets(call'.nid) = {} => cache_store' = cache_store
          /\ values' = values]_vars

\* Scenario: the invalidator and its target both hold cached bytes; the
\* target's are removed and the invalidator's are kept.
InvalidateByWitness ==
    /\ call.op = "invalidate_by"
    /\ call.gone > 0
    /\ Targets(call.nid) # {}
    /\ call.nid \notin Targets(call.nid)
    /\ \E k \in Entries(cache_store) : k[1] = call.nid

(***************************************************************************)
(* C40: the invalidator dependency map of DefaultCacheStore is changed     *)
(* only by store_invalidator: cache, get_cache, invalidate_by,             *)
(* invalidate_of and clear leave it untouched, so after clear() an entry   *)
(* cached again for a target node is still removed by invalidate_by of its *)
(* invalidator.                                                            *)
(***************************************************************************)
InvalidatorsOnlyByStoreInvalidator ==
    [][/\ invalidators' # invalidators
          => /\ CallOf("store_invalidator")
             /\ cache_store' = cache_store
       /\ \A op \in {"cache", "get_cache", "invalidate_by", "invalidate_of", "clear"} :
             CallOf(op) => \A n \in NodeIds : Targets(n)' = Targets(n)
       /\ CallOf("clear") => Entries(cache_store') = {}
       /\ CallOf("invalidate_by")
             => \A k \in Entries(cache_store') : k[1] \notin Targets(call'.nid)]_vars

\* Scenario: clear removes cached entries while a dependency is registered,
\* and the dependency is still registered afterwards.
ClearKeepsInvalidatorsWitness ==
    /\ call.op = "clear"
    /\ call.gone > 0
    /\ \E n \in NodeIds : Targets(n) # {}


=============================================================================
